---- MODULE Spec2Model ----
(***************************************************************************)
(* A model of the OpenAPI 3 parser (OAS3Parser) of basketry/openapi-3.     *)
(*                                                                         *)
(* The document is the generic position-annotated tree the external        *)
(* parser produces (object / array / literal nodes).  The typed overlay,   *)
(* the reference resolver, the schema classifier and the synthesizer are   *)
(* operators translated from the source; the state machine is one          *)
(* OAS3Parser instance: its fields and the position of its parse() call.   *)
(***************************************************************************)
EXTENDS Integers, Sequences, FiniteSets, TLC

VARIABLES
  doc,            \* this.schema: the parsed document (constructor argument)
  pc,             \* position of the instance: constructed / inside parse() / returned / thrown
  enums,          \* this.enums
  anonymousTypes, \* this.anonymousTypes
  unions,         \* this.unions
  violations,     \* this.violations
  interfaces,     \* local `interfaces` of parse()
  types,          \* local `types` of parse()
  service,        \* the value parse() returned (NoService until it returns)
  error,          \* the message of the error parse() threw ("" when none)
  calls,          \* number of parse() calls started on the instance
  ptr,            \* the pointer handed to resolveRef ("" when none is)
  found           \* what the pointer resolved to and how its target is classified

vars == <<doc, pc, enums, anonymousTypes, unions, violations, interfaces,
          types, service, error, calls, ptr, found>>

\* A call of a function or method of the program, by its name (defined below,
\* after the functions it dispatches to)
RECURSIVE Call(_, _)

-----------------------------------------------------------------------------
(* Bounds of the model.                                                    *)

\* Depth of nested parseType / parseProperties calls the engine's call stack
\* holds before it throws RangeError (every document of the model that has
\* no reference cycle nests far less).
StackLimit == 6

\* Number of parse() calls made on one instance.
MaxCalls == 2

-----------------------------------------------------------------------------
(* Strings (JavaScript String methods used by the source).                 *)

LowerChars == "abcdefghijklmnopqrstuvwxyz"
UpperChars == "ABCDEFGHIJKLMNOPQRSTUVWXYZ"
DigitChars == "0123456789"

CharAt(s, i) == SubSeq(s, i, i)

IndexIn(c, chars) ==
  IF \E i \in 1..Len(chars) : CharAt(chars, i) = c
  THEN CHOOSE i \in 1..Len(chars) : CharAt(chars, i) = c
  ELSE 0

IsLower(c) == IndexIn(c, LowerChars) # 0
IsUpper(c) == IndexIn(c, UpperChars) # 0
IsDigit(c) == IndexIn(c, DigitChars) # 0
IsLetter(c) == IsLower(c) \/ IsUpper(c)
ToUpper(c) == IF IsLower(c) THEN CharAt(UpperChars, IndexIn(c, LowerChars)) ELSE c
ToLower(c) == IF IsUpper(c) THEN CharAt(LowerChars, IndexIn(c, UpperChars)) ELSE c

StartsWith(s, p) == Len(s) >= Len(p) /\ SubSeq(s, 1, Len(p)) = p
EndsWith(s, p) == Len(s) >= Len(p) /\ SubSeq(s, Len(s) - Len(p) + 1, Len(s)) = p
Substring(s, n) == SubSeq(s, n + 1, Len(s))

\* the indices of s, and the strings of a list joined
Indices(s) == [i \in 1..Len(s) |-> i]

RECURSIVE Join(_, _, _)
Join(cs, lo, hi) ==
  IF lo > hi THEN ""
  ELSE IF lo = hi THEN cs[lo]
  ELSE Join(cs, lo, (lo + hi) \div 2) \o Join(cs, (lo + hi) \div 2 + 1, hi)

\* s.split(sep) for a one-character separator
Split(s, sep) ==
  LET seps == SelectSeq(Indices(s), LAMBDA i : CharAt(s, i) = sep) IN
  [k \in 1..(Len(seps) + 1) |->
     SubSeq(s, IF k = 1 THEN 1 ELSE seps[k - 1] + 1,
               IF k = Len(seps) + 1 THEN Len(s) ELSE seps[k] - 1)]

\* Number(s) for the strings used as response keys: a decimal numeral gives
\* its value, anything else NaN (modelled as -1)
RECURSIVE DigitsValue(_, _, _)
DigitsValue(s, i, acc) ==
  IF i > Len(s) THEN acc
  ELSE DigitsValue(s, i + 1, acc * 10 + (IndexIn(CharAt(s, i), DigitChars) - 1))

IsNumeral(s) == Len(s) > 0 /\ \A i \in 1..Len(s) : IsDigit(CharAt(s, i))
NaN == -1
ToNumber(s) == IF IsNumeral(s) THEN DigitsValue(s, 1, 0) ELSE NaN

\* pascal() of the `case` package: every run of non-letters is dropped and a
\* lower-case letter that starts the string or follows such a run is raised
IsWordChar(c) == IsLetter(c) \/ IsDigit(c)
WordChars(s) == SelectSeq(Indices(s), LAMBDA i : IsWordChar(CharAt(s, i)))

pascal(s) ==
  LET cs == [k \in DOMAIN WordChars(s) |->
               LET i == WordChars(s)[k] IN
               IF i = 1 \/ ~IsWordChar(CharAt(s, i - 1)) THEN ToUpper(CharAt(s, i))
               ELSE CharAt(s, i)]
  IN Join(cs, 1, Len(cs))

\* camel(): pascal() with the first character lowered
camel(s) ==
  LET p == Call("pascal", <<s>>) IN
  IF Len(p) = 0 THEN "" ELSE ToLower(CharAt(p, 1)) \o Substring(p, 1)

\* kebab() of the `case` package on the keys the model uses: lower-case
\* words joined by '-'; a hump (lower then upper) and every run of
\* non-letters is a word border
kebab(s) ==
  LET cs == [k \in DOMAIN WordChars(s) |->
               LET i == WordChars(s)[k]
                   c == CharAt(s, i)
               IN (IF k > 1 /\ (~IsWordChar(CharAt(s, i - 1))
                                \/ (~IsUpper(CharAt(s, i - 1)) /\ IsUpper(c)))
                   THEN "-" ELSE "")
                  \o ToLower(c)]
  IN Join(cs, 1, Len(cs))

\* singular() of the `pluralize` package on the words the model uses: a
\* final "s" is dropped unless the word ends in "ss" or "us"
singular(s) ==
  IF EndsWith(s, "s") /\ ~EndsWith(s, "ss") /\ ~EndsWith(s, "us") /\ Len(s) > 1
  THEN SubSeq(s, 1, Len(s) - 1)
  ELSE s

\* major() of the `semver` package: the numeral before the first '.'
major(v) == Call("ToNumber", <<Call("Split", <<v, ".">>)[1]>>)

-----------------------------------------------------------------------------
(* The generic document tree (AST) of the external parser.                 *)

Undefined == [type |-> "Undefined"]

Obj(children) == [type |-> "Object", children |-> children]
Arr(children) == [type |-> "Array", children |-> children]
Str(s)  == [type |-> "Literal", lt |-> "string",  str |-> s,  num |-> 0, bool |-> FALSE]
Num(n)  == [type |-> "Literal", lt |-> "number",  str |-> "", num |-> n, bool |-> FALSE]
Bool(b) == [type |-> "Literal", lt |-> "boolean", str |-> "", num |-> 0, bool |-> b]
KV(k, v) == [key |-> k, value |-> v]

isObject(n)  == n.type = "Object"
isArray(n)   == n.type = "Array"
isLiteral(n) == n.type = "Literal"

\* children.find((n) => n.key.value === key)?.value
Child(n, key) ==
  IF isObject(n) /\ \E i \in 1..Len(n.children) : n.children[i].key = key
  THEN n.children[CHOOSE i \in 1..Len(n.children) :
                    /\ n.children[i].key = key
                    /\ \A j \in 1..(i - 1) : n.children[j].key # key].value
  ELSE Undefined

\* JavaScript truthiness of a literal's value
Truthy(n) ==
  /\ isLiteral(n)
  /\ \/ n.lt = "boolean" /\ n.bool
     \/ n.lt = "number" /\ n.num # 0
     \/ n.lt = "string" /\ n.str # ""

-----------------------------------------------------------------------------
(* Source ranges.  A node's range is fixed by where the node is in the     *)
(* text, so it is modelled by the serialization and the node's path:       *)
(* the same node has a different range in either serialization.            *)

NoLoc == <<>>

\* A typed view (DocumentNode) over a tree node: `at` is the serialization
\* followed by the path of the node from the root
Wrap(nt, n, at) == [nodeType |-> nt, node |-> n, at |-> at]
Undef == Wrap("undefined", Undefined, <<>>)
ThrowW(msg) == Wrap("throw", Undefined, <<msg>>)

IsDef(w) == w.nodeType # "undefined" /\ w.nodeType # "throw"
IsThrow(w) == w.nodeType = "throw"

\* range(node) == encodeRange(node.loc)
range(w) == <<"value">> \o w.at

\* node.keys
keys(w) ==
  IF isObject(w.node) THEN [i \in 1..Len(w.node.children) |-> w.node.children[i].key]
  ELSE <<>>

hasKey(w, key) == Child(w.node, key) # Undefined

\* node.keyRange(key), node.propRange(key): undefined for a key the node lacks
keyRange(w, key) == IF hasKey(w, key) THEN <<"key">> \o Append(w.at, key) ELSE NoLoc
propRange(w, key) == IF hasKey(w, key) THEN <<"prop">> \o Append(w.at, key) ELSE NoLoc

\* getProperty(key)?.value, as a view of the given kind
getChild(w, key, nt) ==
  IF hasKey(w, key) THEN Wrap(nt, Child(w.node, key), Append(w.at, key)) ELSE Undef

getLiteral(w, key) == getChild(w, key, "Literal")

\* the elements of an array node as views of the given kind
Elements(w, nt) ==
  [i \in 1..Len(w.node.children) |->
     Wrap(nt, w.node.children[i], Append(w.at, ToString(i - 1)))]

\* getArray(key, Node): undefined when absent, an error when not an array
arrayThrows(w, key) == hasKey(w, key) /\ ~isArray(Child(w.node, key))
hasArray(w, key) == hasKey(w, key) /\ isArray(Child(w.node, key))
getArray(w, key, nt) ==
  IF hasArray(w, key) THEN Elements(getChild(w, key, "Array"), nt) ELSE <<>>

\* the string / number / boolean a literal view holds
strOf(w) == IF isLiteral(w.node) /\ w.node.lt = "string" THEN w.node.str ELSE ""
isStrLit(w) == isLiteral(w.node) /\ w.node.lt = "string"
isNumLit(w) == isLiteral(w.node) /\ w.node.lt = "number"

\* The root view of a document
Root(d) == Wrap("Schema", d.node, <<d.fmt>>)

-----------------------------------------------------------------------------
(* Reference resolver.                                                     *)

RECURSIVE resolveSegments(_, _, _, _)
resolveSegments(root, segs, i, cur) ==
  IF i > Len(segs) THEN cur
  ELSE IF segs[i] = "#" THEN Call("resolveSegments", <<root, segs, i + 1, Wrap("AST", root.node, root.at)>>)
  ELSE IF isObject(cur.node) /\ hasKey(cur, segs[i])
       THEN Call("resolveSegments", <<root, segs, i + 1, getChild(cur, segs[i], "AST")>>)
       ELSE ThrowW("Cannot resolve ref")

\* resolveRef(root, ref): the node the pointer addresses, or an error
resolveRef(root, ref) ==
  IF ~StartsWith(ref, "#") THEN ThrowW("Cannot resolve ref")
  ELSE Call("resolveSegments", <<root, Call("Split", <<ref, "/">>), 1, Wrap("AST", root.node, root.at)>>)

\* refRange(root, ref): the range of the key of the last property walked
\* (of the root when the pointer walks none)
refRange(root, ref) ==
  LET w == Call("resolveRef", <<root, ref>>) IN
  IF Len(w.at) > 1 THEN <<"key">> \o w.at ELSE <<"value">> \o w.at

isRef(n) == isObject(n) /\ Child(n, "$ref") # Undefined
isRefNode(w) == w.nodeType = "Ref"

\* itemOrRef.$ref.value
refValue(w) == strOf(getLiteral(w, "$ref"))

-----------------------------------------------------------------------------
(* Schema classifier.                                                      *)

\* the variant a literal `type` value names ("" when none)
SchemaVariant(t) ==
  IF ~isLiteral(t) \/ t.lt # "string" THEN ""
  ELSE CASE t.str = "string"  -> "StringSchema"
         [] t.str = "integer" -> "NumberSchema"
         [] t.str = "number"  -> "NumberSchema"
         [] t.str = "boolean" -> "BooleanSchema"
         [] t.str = "array"   -> "ArraySchema"
         [] t.str = "object"  -> "ObjectSchema"
         [] OTHER -> ""

\* toSchemaOrRef(value): the inline path
toSchemaOrRef(v) ==
  IF ~IsDef(v) THEN Undef
  ELSE IF isRef(v.node) THEN Wrap("Ref", v.node, v.at)
  ELSE IF isObject(v.node)
       THEN LET t == Child(v.node, "type") IN
            IF t = Undefined THEN Wrap("ObjectSchema", v.node, v.at)
            ELSE IF SchemaVariant(t) # "" THEN Wrap(SchemaVariant(t), v.node, v.at)
            ELSE ThrowW("Unknown schema definition")
  ELSE ThrowW("Unknown schema definition")

\* resolveSchema(root, schemaOrRef): the reference-target path.  Undefined
\* when the target is no object or its type is not recognised; an error when
\* the pointer does not resolve
resolveSchema(root, s) ==
  IF ~isRefNode(s) THEN s
  ELSE LET w == Call("resolveRef", <<root, refValue(s)>>) IN
       IF IsThrow(w) THEN w
       ELSE IF ~isObject(w.node) THEN Undef
       ELSE LET t == Child(w.node, "type") IN
            IF t = Undefined THEN Wrap("ObjectSchema", w.node, w.at)
            ELSE IF ~isLiteral(t) THEN Undef
            ELSE IF SchemaVariant(t) # "" THEN Wrap(SchemaVariant(t), w.node, w.at)
            ELSE Undef

\* resolve(root, itemOrRef, Node): the target wrapped as Node, unchecked
resolve(root, w, nt) ==
  IF isRefNode(w)
  THEN LET r == Call("resolveRef", <<root, refValue(w)>>) IN
       IF IsThrow(r) THEN r ELSE Wrap(nt, r.node, r.at)
  ELSE w

\* resolveParam(root, paramOrRef)
resolveParam(root, p) ==
  IF ~isRefNode(p) THEN p
  ELSE LET r == Call("resolveRef", <<root, refValue(p)>>) IN
       IF IsThrow(r) THEN r
       ELSE IF ~isObject(r.node) THEN Undef
       ELSE Wrap("Parameter", r.node, r.at)

\* getChildOrRef(key, Node)
getChildOrRef(w, key, nt) ==
  IF ~hasKey(w, key) THEN Undef
  ELSE IF isRef(Child(w.node, key)) THEN getChild(w, key, "Ref")
  ELSE getChild(w, key, nt)

\* the `parameters` getter of PathItemNode and OperationNode
hasParameters(w) == hasKey(w, "parameters")
parametersThrow(w) == arrayThrows(w, "parameters")
parametersOf(w) ==
  IF ~hasArray(w, "parameters") THEN <<>>
  ELSE LET a == getChild(w, "parameters", "Array") IN
       [i \in 1..Len(a.node.children) |->
          Wrap(IF isRef(a.node.children[i]) THEN "Ref" ELSE "Parameter",
               a.node.children[i], Append(a.at, ToString(i - 1)))]

\* the `schema` getter of ParameterNode / MediaTypeNode, `items` of
\* ArraySchemaNode, read(key) of SchemaIndexNode / PropertiesNode
schemaOf(w) == Call("toSchemaOrRef", <<getChild(w, "schema", "AST")>>)
itemsOf(w) == Call("toSchemaOrRef", <<getChild(w, "items", "AST")>>)
readSchema(w, key) == Call("toSchemaOrRef", <<getChild(w, key, "AST")>>)

isObjectSchemaOrRef(w) == w.nodeType = "ObjectSchema" \/ w.nodeType = "Ref"

\* the allOf / oneOf getters of ObjectSchemaNode: undefined unless an array;
\* the members classified, those that are neither object nor reference dropped
hasComposite(w, key) == isArray(Child(w.node, key))
compositeAll(w, key) ==
  LET a == getChild(w, key, "Array") IN
  [i \in 1..Len(a.node.children) |->
     Call("toSchemaOrRef", <<Wrap("AST", a.node.children[i], Append(a.at, ToString(i - 1)))>>)]
compositeThrows(w, key) ==
  hasComposite(w, key) /\ \E i \in DOMAIN Call("compositeAll", <<w, key>>) : IsThrow(Call("compositeAll", <<w, key>>)[i])
compositeOf(w, key) == SelectSeq(Call("compositeAll", <<w, key>>), isObjectSchemaOrRef)

-----------------------------------------------------------------------------
(* Values of the intermediate representation.                              *)

\* Scalar<T>: a value and its range (NoLoc when the code sets none)
Scalar(v, loc) == [value |-> v, loc |-> loc]

\* the value of a literal node, of whatever type
LitVal(w) == [lt |-> w.node.lt, str |-> w.node.str, num |-> w.node.num, bool |-> w.node.bool]

toScalar_rangeAsValue(w) ==
  IF IsDef(w) /\ isLiteral(w.node) THEN <<Scalar(range(w), range(w))>> ELSE <<>>

\* literal(node) / toScalar(node): an optional scalar (<<>> is undefined)
toScalar(w) == IF IsDef(w) /\ isLiteral(w.node) THEN <<Scalar(LitVal(w), range(w))>> ELSE <<>>

\* an optional string scalar
strScalar(w) == IF IsDef(w) THEN <<Scalar(strOf(w), range(w))>> ELSE <<>>

\* parseDescriptionOnly(description)
parseDescriptionOnly(w) == Call("strScalar", <<w>>)

\* parseDescription(summary, description)
parseDescription(summary, description) == Call("strScalar", <<summary>>) \o Call("strScalar", <<description>>)

\* toJson(node): the plain value of a tree.  A literal gives its value, an
\* array its elements' values, an object one entry per key (at the place of
\* the key's first property, with the value of its last)
RECURSIVE toJson(_)
toJson(n) ==
  IF isLiteral(n) THEN [json |-> "literal", lt |-> n.lt, str |-> n.str, num |-> n.num, bool |-> n.bool]
  ELSE IF isArray(n)
  THEN [json |-> "array", items |-> [i \in 1..Len(n.children) |-> Call("toJson", <<n.children[i]>>)]]
  ELSE IF isObject(n)
  THEN LET firsts == SelectSeq([i \in 1..Len(n.children) |-> i],
                               LAMBDA i : \A j \in 1..(i - 1) : n.children[j].key # n.children[i].key)
           lastOf(k) == CHOOSE i \in 1..Len(n.children) :
                          /\ n.children[i].key = k
                          /\ \A j \in (i + 1)..Len(n.children) : n.children[j].key # k
       IN [json |-> "object",
           entries |-> [x \in 1..Len(firsts) |->
                          [key |-> n.children[firsts[x]].key,
                           value |-> Call("toJson", <<n.children[lastOf(n.children[firsts[x]].key)].value>>)]]]
  ELSE [json |-> "undefined"]

\* parseMeta(node): the x- properties (<<>> is undefined)
parseMeta(w) ==
  IF ~isObject(w.node) THEN <<>>
  ELSE LET xs == SelectSeq(w.node.children, LAMBDA c : StartsWith(c.key, "x-")) IN
       [i \in 1..Len(xs) |->
          [key |-> Scalar(Substring(xs[i].key, 2), <<"key">> \o Append(w.at, xs[i].key)),
           value |-> Scalar(Call("toJson", <<xs[i].value>>), <<"value">> \o Append(w.at, xs[i].key))]]

-----------------------------------------------------------------------------
(* Validation rule synthesis.                                              *)

NoStr == Scalar("", NoLoc)
NoNum == Scalar(0, NoLoc)

Rule(id, s, n, values, loc) ==
  [kind |-> "ValidationRule", id |-> id, str |-> s, num |-> n, values |-> values, loc |-> loc]

numScalar(w) == Scalar(w.node.num, range(w))

isString(w) == w.nodeType = "StringSchema"
isNumber(w) == w.nodeType = "NumberSchema"
isArraySchema(w) == w.nodeType = "ArraySchema"
isObjectSchema_never(w) == FALSE
isObjectSchema(w) == w.nodeType = "ObjectSchema"

stringEnumFactory(def) ==
  IF isString(def) /\ hasArray(def, "enum")
  THEN <<Rule("string-enum", NoStr, NoNum,
              LET e == getArray(def, "enum", "Literal") IN
              [i \in 1..Len(e) |-> Scalar(strOf(e[i]), range(e[i]))],
              propRange(def, "enum"))>>
  ELSE <<>>

stringFormatFactory(def) ==
  IF isString(def) /\ isStrLit(getLiteral(def, "format"))
  THEN <<Rule("string-format", Scalar(strOf(getLiteral(def, "format")), range(getLiteral(def, "format"))),
              NoNum, <<>>, propRange(def, "format"))>>
  ELSE <<>>

stringMaxLengthFactory(def) ==
  IF isString(def) /\ isNumLit(getLiteral(def, "maxLength"))
  THEN <<Rule("string-max-length", NoStr, numScalar(getLiteral(def, "maxLength")), <<>>,
              propRange(def, "maxLength"))>>
  ELSE <<>>

stringMinLengthFactory(def) ==
  IF isString(def) /\ isNumLit(getLiteral(def, "minLength"))
  THEN <<Rule("string-min-length", NoStr, numScalar(getLiteral(def, "minLength")), <<>>,
              propRange(def, "minLength"))>>
  ELSE <<>>

stringPatternFactory(def) ==
  IF isString(def) /\ isStrLit(getLiteral(def, "pattern"))
  THEN <<Rule("string-pattern", Scalar(strOf(getLiteral(def, "pattern")), range(getLiteral(def, "pattern"))),
              NoNum, <<>>, propRange(def, "pattern"))>>
  ELSE <<>>

numberMultipleOfFactory(def) ==
  IF isNumber(def) /\ isNumLit(getLiteral(def, "multipleOf"))
  THEN <<Rule("number-multiple-of", NoStr, numScalar(getLiteral(def, "multipleOf")), <<>>,
              propRange(def, "multipleOf"))>>
  ELSE <<>>

numberGreaterThanFactory(def) ==
  IF isNumber(def) /\ isNumLit(getLiteral(def, "minimum"))
  THEN <<Rule(IF Truthy(Child(def.node, "exclusiveMinimum")) THEN "number-gt" ELSE "number-gte",
              NoStr, numScalar(getLiteral(def, "minimum")), <<>>, propRange(def, "minimum"))>>
  ELSE <<>>

numberLessThanFactory_ownFlag(def) ==
  IF isNumber(def) /\ isNumLit(getLiteral(def, "maximum"))
  THEN <<Rule(IF Truthy(Child(def.node, "exclusiveMaximum")) THEN "number-lt" ELSE "number-lte",
              NoStr, numScalar(getLiteral(def, "maximum")), <<>>, propRange(def, "maximum"))>>
  ELSE <<>>

numberLessThanFactory(def) ==
  IF isNumber(def) /\ isNumLit(getLiteral(def, "maximum"))
  THEN <<Rule(IF Truthy(Child(def.node, "exclusiveMinimum")) THEN "number-lt" ELSE "number-lte",
              NoStr, numScalar(getLiteral(def, "maximum")), <<>>, propRange(def, "maximum"))>>
  ELSE <<>>

arrayMinItemsFactory(def) ==
  IF isArraySchema(def) /\ isNumLit(getLiteral(def, "minItems"))
  THEN <<Rule("array-min-items", NoStr, numScalar(getLiteral(def, "minItems")), <<>>,
              propRange(def, "minItems"))>>
  ELSE <<>>

arrayMaxItemsFactory(def) ==
  IF isArraySchema(def) /\ isNumLit(getLiteral(def, "maxItems"))
  THEN <<Rule("array-max-items", NoStr, numScalar(getLiteral(def, "maxItems")), <<>>,
              propRange(def, "maxItems"))>>
  ELSE <<>>

\* `def.uniqueItems` is the literal node, truthy whenever the key is present
arrayUniqueItemsFactory(def) ==
  IF isArraySchema(def) /\ IsDef(getLiteral(def, "uniqueItems"))
  THEN <<Rule("array-unique-items", NoStr, NoNum, <<>>, propRange(def, "uniqueItems"))>>
  ELSE <<>>

\* ruleFactories.map((f) => f(schema)).filter((x) => !!x)
factories(def) ==
  Call("stringEnumFactory", <<def>>) \o Call("stringFormatFactory", <<def>>) \o Call("stringMaxLengthFactory", <<def>>)
  \o Call("stringMinLengthFactory", <<def>>) \o Call("stringPatternFactory", <<def>>)
  \o Call("numberMultipleOfFactory", <<def>>) \o Call("numberGreaterThanFactory", <<def>>)
  \o Call("numberLessThanFactory", <<def>>) \o Call("arrayMaxItemsFactory", <<def>>)
  \o Call("arrayMinItemsFactory", <<def>>) \o Call("arrayUniqueItemsFactory", <<def>>)

ObjectRule(id, n, loc) == [kind |-> "ObjectValidationRule", id |-> id, num |-> n, loc |-> loc]

objectMinPropertiesFactory(def) ==
  IF isObjectSchema(def) /\ isNumLit(getLiteral(def, "minProperties"))
  THEN <<ObjectRule("object-min-properties", numScalar(getLiteral(def, "minProperties")),
                    propRange(def, "minProperties"))>>
  ELSE <<>>

objectMaxPropertiesFactory(def) ==
  IF isObjectSchema(def) /\ isNumLit(getLiteral(def, "maxProperties"))
  THEN <<ObjectRule("object-max-properties", numScalar(getLiteral(def, "maxProperties")),
                    propRange(def, "maxProperties"))>>
  ELSE <<>>

objectAdditionalPropertiesFactory(def) ==
  LET ap == Child(def.node, "additionalProperties") IN
  IF isObjectSchema(def) /\ isLiteral(ap) /\ ap.lt = "boolean" /\ ap.bool = FALSE
  THEN <<ObjectRule("object-additional-properties", NoNum,
                    propRange(def, "additionalProperties"))>>
  ELSE <<>>

\* parseObjectRules(def)
parseObjectRules(def) ==
  Call("objectMaxPropertiesFactory", <<def>>) \o Call("objectMinPropertiesFactory", <<def>>)
  \o Call("objectAdditionalPropertiesFactory", <<def>>)

\* parseSchema(node): the schema of a parameter, or the schema itself
parseSchema(root, def) ==
  IF ~IsDef(def) THEN Undef
  ELSE IF def.nodeType # "Parameter" THEN def
  ELSE IF ~IsDef(Call("schemaOf", <<def>>)) THEN Call("schemaOf", <<def>>)
  ELSE Call("resolveSchema", <<root, Call("schemaOf", <<def>>)>>)

requiredRule == Rule("required", NoStr, NoNum, <<>>, NoLoc)

\* parseRules(def, required): [rules, err]; err is the message of the error
\* thrown while the item schema is read or resolved ("" when none)
parseRules(root, def, required) ==
  LET schema == Call("parseSchema", <<root, def>>)
      req == IF required THEN <<requiredRule>> ELSE <<>>
  IN
  IF IsThrow(schema) THEN [rules |-> <<>>, err |-> schema.at[1]]
  ELSE IF ~IsDef(schema) THEN [rules |-> req, err |-> ""]
  ELSE
    LET localRules == Call("factories", <<schema>>)
        items == IF isArraySchema(schema) THEN Call("itemsOf", <<schema>>) ELSE Undef
    IN
    IF IsThrow(items) THEN [rules |-> <<>>, err |-> items.at[1]]
    ELSE IF ~isArraySchema(schema) \/ ~IsDef(items)
    THEN [rules |-> req \o localRules, err |-> ""]
    ELSE
      LET itemsSchema == Call("resolveSchema", <<root, items>>) IN
      IF IsThrow(itemsSchema) THEN [rules |-> <<>>, err |-> itemsSchema.at[1]]
      ELSE IF ~IsDef(itemsSchema) THEN [rules |-> <<>>, err |-> ""]
      ELSE [rules |-> req \o localRules \o Call("factories", <<itemsSchema>>), err |-> ""]

-----------------------------------------------------------------------------
(* The synthesizer.  The mutable fields of the instance are threaded       *)
(* through the calls as one record; `err` is the message of a thrown       *)
(* error, and once it is set nothing more is evaluated.                    *)

Fields(e, a, u, v) == [enums |-> e, anonymousTypes |-> a, unions |-> u, violations |-> v, err |-> ""]
Throw(st, msg) == [st EXCEPT !.err = msg]
Failed(st) == st.err # ""

\* a returned value together with the fields after the call
Ret(v, st) == [v |-> v, st |-> st]

\* the typed-value descriptor parseType returns
TV(typeName, primitive, array, rules, loc, default, constant) ==
  [typeName |-> typeName, isPrimitive |-> primitive, isArray |-> array,
   rules |-> rules, loc |-> loc, default |-> default, constant |-> constant]

NoTV == TV(Scalar("", NoLoc), TRUE, FALSE, <<>>, NoLoc, <<>>, <<>>)

ComponentSchemasPrefix == "#/components/schemas/"

\* schema.enum.map<EnumValue>(...)
enumValues(schema) ==
  LET e == getArray(schema, "enum", "Literal") IN
  [i \in 1..Len(e) |->
     [kind |-> "EnumValue", content |-> Scalar(strOf(e[i]), range(e[i])), loc |-> range(e[i])]]

Enum(name, values, loc) == [kind |-> "Enum", name |-> name, values |-> values, loc |-> loc]

\* parseStringName(def) for a StringSchema
parseStringName(def) ==
  LET format == getLiteral(def, "format") IN
  IF IsDef(format) /\ isStrLit(format) /\ strOf(format) = "date" THEN Scalar("date", range(def))
  ELSE IF IsDef(format) /\ isStrLit(format) /\ strOf(format) = "date-time"
  THEN Scalar("date-time", range(def))
  ELSE Scalar(strOf(getLiteral(def, "type")), range(getLiteral(def, "type")))

\* parseNumberName(def) for a NumberSchema
parseNumberName(def) ==
  LET type == strOf(getLiteral(def, "type"))
      f == getLiteral(def, "format")
      format == IF IsDef(f) /\ isStrLit(f) THEN strOf(f) ELSE ""
  IN
  IF type = "integer" /\ format = "int32" THEN Scalar("integer", range(def))
  ELSE IF type = "integer" /\ format = "int64" THEN Scalar("long", range(def))
  ELSE IF type = "number" /\ format = "float" THEN Scalar("float", range(def))
  ELSE IF type = "number" /\ format = "double" THEN Scalar("double", range(def))
  ELSE Scalar(type, range(getLiteral(def, "type")))

\* safeConcat(a, b) on the `required` lists (an undefined list is empty)
safeConcat(a, b) == a \o b

requiredOf(w) == getArray(w, "required", "Literal")

RECURSIVE parseType(_, _, _, _, _, _)
RECURSIVE parseMembers(_, _, _, _, _, _, _)
RECURSIVE parseProperties(_, _, _, _, _, _, _, _)
RECURSIVE parseAllOf(_, _, _, _, _, _, _)
RECURSIVE parseProps(_, _, _, _, _, _, _)

\* parseType(schemaOrRef, localName, parentName), called at stack depth `depth`
parseType(root, schemaOrRef, localName, parentName, st, depth) ==
  LET \* schemaOrRef is a reference
      schema == Call("resolveSchema", <<root, schemaOrRef>>)
      ref == refValue(schemaOrRef)
      name == Scalar(Substring(ref, Len(ComponentSchemasPrefix)), Call("refRange", <<root, ref>>))
      r == Call("parseRules", <<root, schema, FALSE>>)
      stRef == [st EXCEPT !.enums =
                  Append(@, Enum(name, Call("enumValues", <<schema>>), propRange(schema, "enum")))]
      \* schemaOrRef is a schema
      rr == Call("parseRules", <<root, schemaOrRef, FALSE>>)
      rules == rr.rules
      enumName == Call("camel", <<parentName \o "_" \o Call("singular", <<localName>>)>>)
      st1 == [st EXCEPT !.enums =
                Append(@, Enum(Scalar(enumName, NoLoc), Call("enumValues", <<schemaOrRef>>),
                               propRange(schemaOrRef, "enum")))]
      items == Call("parseType", <<root, Call("itemsOf", <<schemaOrRef>>), localName, parentName, st, depth + 1>>)
      typeName == Scalar(Call("camel", <<parentName \o "_" \o localName>>), NoLoc)
      m == Call("parseMembers", <<root, Call("compositeOf", <<schemaOrRef, "oneOf">>), 1, localName,
                            parentName, st, depth + 1>>)
      ps == Call("parseProperties", <<root, getChild(schemaOrRef, "properties", "Properties"),
                                Call("requiredOf", <<schemaOrRef>>),
                                hasComposite(schemaOrRef, "allOf"),
                                schemaOrRef, typeName.value, st, depth + 1>>)
  IN
  CASE Failed(st) -> Ret(NoTV, st)
    [] depth > StackLimit -> Ret(NoTV, Throw(st, "RangeError: Maximum call stack size exceeded"))
    [] IsThrow(schemaOrRef) -> Ret(NoTV, Throw(st, schemaOrRef.at[1]))
    [] isRefNode(schemaOrRef) ->
      CASE IsThrow(schema) -> Ret(NoTV, Throw(st, schema.at[1]))
        [] ~IsDef(schema) -> Ret(NoTV, Throw(st, "Cannot resolve reference"))
        [] StartsWith(ref, ComponentSchemasPrefix) /\ isObjectSchema(schema) ->
          IF r.err # "" THEN Ret(NoTV, Throw(st, r.err))
          ELSE Ret(TV(name, FALSE, FALSE, r.rules, range(schema), <<>>, <<>>), st)
        [] StartsWith(ref, ComponentSchemasPrefix) /\ isString(schema) /\ hasArray(schema, "enum") ->
          IF r.err # "" THEN Ret(NoTV, Throw(stRef, r.err))
          ELSE Ret(TV(name, FALSE, FALSE, r.rules, range(schema), <<>>, <<>>), stRef)
        [] StartsWith(ref, ComponentSchemasPrefix) ->
          Call("parseType", <<root, schema, localName, parentName, st, depth + 1>>)
        [] OTHER ->
          IF r.err # "" THEN Ret(NoTV, Throw(st, r.err))
          ELSE Ret(TV(Scalar(ref, Call("refRange", <<root, ref>>)), FALSE, FALSE, r.rules, range(schema),
                      <<>>, <<>>), st)
    [] rr.err # "" -> Ret(NoTV, Throw(st, rr.err))
    [] schemaOrRef.nodeType = "StringSchema" ->
      IF hasArray(schemaOrRef, "enum")
      THEN Ret(TV(Scalar(enumName, NoLoc), FALSE, FALSE, rules, range(schemaOrRef), <<>>, <<>>), st1)
      ELSE Ret(TV(Call("parseStringName", <<schemaOrRef>>), TRUE, FALSE, rules, range(schemaOrRef),
                  Call("toScalar", <<getLiteral(schemaOrRef, "default")>>),
                  Call("toScalar", <<getLiteral(schemaOrRef, "const")>>)), st)
    [] schemaOrRef.nodeType = "NumberSchema" ->
      Ret(TV(Call("parseNumberName", <<schemaOrRef>>), TRUE, FALSE, rules, range(schemaOrRef),
             Call("toScalar", <<getLiteral(schemaOrRef, "default")>>),
             Call("toScalar", <<getLiteral(schemaOrRef, "const")>>)), st)
    [] schemaOrRef.nodeType = "BooleanSchema" ->
      Ret(TV(Scalar(strOf(getLiteral(schemaOrRef, "type")), range(getLiteral(schemaOrRef, "type"))),
             TRUE, FALSE, rules, range(schemaOrRef),
             Call("toScalar", <<getLiteral(schemaOrRef, "default")>>),
             Call("toScalar", <<getLiteral(schemaOrRef, "const")>>)), st)
    [] schemaOrRef.nodeType = "ArraySchema" ->
      CASE ~IsDef(Call("itemsOf", <<schemaOrRef>>)) ->
             Ret(NoTV, Throw(st, "Expected array items but found undefined"))
        [] Failed(items.st) -> Ret(NoTV, items.st)
        [] OTHER -> Ret(TV(items.v.typeName, items.v.isPrimitive, TRUE, rules, range(schemaOrRef),
                           <<>>, <<>>), items.st)
    [] schemaOrRef.nodeType = "ObjectSchema" ->
      CASE Call("compositeThrows", <<schemaOrRef, "oneOf">>) ->
             Ret(NoTV, Throw(st, "Unknown schema definition"))
        [] hasComposite(schemaOrRef, "oneOf") /\ Failed(m.st) -> Ret(NoTV, m.st)
        [] hasComposite(schemaOrRef, "oneOf") ->
             Ret(TV(typeName, FALSE, FALSE, rules, range(schemaOrRef), <<>>, <<>>),
                 [m.st EXCEPT !.unions =
                    Append(@, [kind |-> "Union", name |-> typeName, members |-> m.v,
                               loc |-> range(schemaOrRef), meta |-> Call("parseMeta", <<schemaOrRef>>)])])
        [] Failed(ps.st) -> Ret(NoTV, ps.st)
        [] OTHER ->
             Ret(TV(typeName, FALSE, FALSE, rules, range(schemaOrRef), <<>>, <<>>),
                 [ps.st EXCEPT !.anonymousTypes =
                    Append(@, [kind |-> "Type", name |-> typeName, properties |-> ps.v,
                               description |-> Call("strScalar", <<getLiteral(schemaOrRef, "description")>>),
                               rules |-> Call("parseObjectRules", <<schemaOrRef>>),
                               loc |-> range(schemaOrRef), meta |-> <<>>])])
    [] OTHER ->
      Ret(TV(Scalar("untyped", NoLoc), TRUE, FALSE, rules, range(schemaOrRef), <<>>, <<>>), st)

\* schemaOrRef.oneOf.map((subDef) => this.parseType(subDef, localName, parentName))
parseMembers(root, subs, i, localName, parentName, st, depth) ==
  IF Failed(st) \/ i > Len(subs) THEN Ret(<<>>, st)
  ELSE LET m == Call("parseType", <<root, subs[i], localName, parentName, st, depth>>)
           rest == Call("parseMembers", <<root, subs, i + 1, localName, parentName, m.st, depth>>)
       IN Ret(<<m.v>> \o rest.v, rest.st)

\* parseProperties(properties, required, allOf, parentName); `owner` is the
\* schema whose allOf is read when hasAllOf
parseProperties(root, properties, required, hasAllOf, owner, parentName, st, depth) ==
  CASE Failed(st) -> Ret(<<>>, st)
    [] depth > StackLimit -> Ret(<<>>, Throw(st, "RangeError: Maximum call stack size exceeded"))
    [] hasAllOf /\ Call("compositeThrows", <<owner, "allOf">>) ->
         Ret(<<>>, Throw(st, "Unknown schema definition"))
    [] hasAllOf ->
         Call("parseAllOf", <<root, Call("compositeOf", <<owner, "allOf">>), 1, required, parentName, st, depth>>)
    [] OTHER -> Call("parseProps", <<root, properties, 1, required, parentName, st, depth>>)

\* allOf.map((subDef) => ...).reduce((a, b) => a.concat(b), [])
parseAllOf(root, allOf, i, required, parentName, st, depth) ==
  LET resolved == Call("resolve", <<root, allOf[i], "ObjectSchema">>)
      p == getChild(resolved, "properties", "Properties")
      r == safeConcat(Call("requiredOf", <<resolved>>), required)
      one == Call("parseProperties", <<root, p, r, FALSE, resolved, parentName, st, depth + 1>>)
      rest == Call("parseAllOf", <<root, allOf, i + 1, required, parentName, one.st, depth>>)
  IN
  CASE Failed(st) \/ i > Len(allOf) -> Ret(<<>>, st)
    [] IsThrow(resolved) -> Ret(<<>>, Throw(st, resolved.at[1]))
    [] OTHER -> Ret(one.v \o rest.v, rest.st)

\* the loop over properties.keys of parseProperties
parseProps(root, properties, i, required, parentName, st, depth) ==
  LET name == keys(properties)[i]
      prop == Call("readSchema", <<properties, name>>)
      resolvedProp == Call("resolveSchema", <<root, prop>>)
      x == Call("parseType", <<root, prop, name, parentName, st, depth + 1>>)
      isReq == \E j \in 1..Len(required) : strOf(required[j]) = name
      r == Call("parseRules", <<root, resolvedProp, isReq>>)
      property ==
        [kind |-> "Property",
         name |-> Scalar(name, keyRange(properties, name)),
         description |-> Call("parseDescriptionOnly", <<getLiteral(resolvedProp, "description")>>),
         typeName |-> x.v.typeName,
         isPrimitive |-> x.v.isPrimitive,
         isArray |-> x.v.isArray,
         default |-> IF x.v.isPrimitive THEN x.v.default ELSE <<>>,
         constant |-> IF x.v.isPrimitive THEN x.v.constant ELSE <<>>,
         rules |-> r.rules,
         loc |-> range(resolvedProp),
         meta |-> Call("parseMeta", <<resolvedProp>>)]
      rest == Call("parseProps", <<root, properties, i + 1, required, parentName, x.st, depth>>)
  IN
  CASE Failed(st) \/ i > Len(keys(properties)) -> Ret(<<>>, st)
    [] IsThrow(prop) -> Ret(<<>>, Throw(st, prop.at[1]))
    [] IsThrow(resolvedProp) -> Ret(<<>>, Throw(st, resolvedProp.at[1]))
    [] ~IsDef(resolvedProp) -> Ret(<<>>, Throw(st, "Cannot resolve reference"))
    [] Failed(x.st) -> Ret(<<>>, x.st)
    [] r.err # "" -> Ret(<<>>, Throw(x.st, r.err))
    [] OTHER -> Ret(<<property>> \o rest.v, rest.st)

-----------------------------------------------------------------------------
(* Request bodies, parameters and return types.                            *)

Violation(message, loc) ==
  [code |-> "openapi-3/unsupported-feature", message |-> message, range |-> loc,
   severity |-> "warning"]

getSchemaOrRef_lastContent(content, st) ==
  LET ks == keys(content) IN
  IF Len(ks) = 0 THEN Ret(Undef, st)
  ELSE LET st1 == IF Len(ks) > 1
                  THEN [st EXCEPT !.violations =
                          Append(@, Violation("Multiple content types are not yet supported. The first content type will be used and all following content types will be ignored.", range(content)))]
                  ELSE st
           mediaType == getChild(content, ks[Len(ks)], "MediaType")
       IN Ret(Call("schemaOf", <<mediaType>>), st1)

\* getSchemaOrRef(content): the schema of the first content type; a warning
\* when there are several
getSchemaOrRef(content, st) ==
  LET ks == keys(content) IN
  IF Len(ks) = 0 THEN Ret(Undef, st)
  ELSE LET st1 == IF Len(ks) > 1
                  THEN [st EXCEPT !.violations =
                          Append(@, Violation("Multiple content types are not yet supported. The first content type will be used and all following content types will be ignored.", range(content)))]
                  ELSE st
           mediaType == getChild(content, ks[1], "MediaType")
       IN Ret(Call("schemaOf", <<mediaType>>), st1)

\* operation.operationId?.value || fallback
operationIdOr(operation, fallback) ==
  LET id == getLiteral(operation, "operationId") IN
  IF IsDef(id) /\ Truthy(id.node) THEN strOf(id) ELSE fallback

\* parseBodyParamName(operation)
parseBodyParamName(operation) ==
  LET meta == Call("parseMeta", <<operation>>)
      hits == SelectSeq(meta, LAMBDA m : Call("kebab", <<m.key.value>>) = "codegen-request-body-name")
  IN
  IF Len(hits) > 0 /\ hits[1].value.value.json = "literal" /\ hits[1].value.value.lt = "string"
  THEN Scalar(hits[1].value.value.str, hits[1].value.loc)
  ELSE Scalar("body", NoLoc)

Parameter(name, description, x, default, rules, loc, meta) ==
  [kind |-> "Parameter", name |-> name, description |-> description,
   typeName |-> x.typeName, isPrimitive |-> x.isPrimitive, isArray |-> x.isArray,
   default |-> default, rules |-> rules, loc |-> loc, meta |-> meta]

\* parseRequestBody(bodyOrRef, methodName, paramName): <<>> (undefined) or
\* <<parameter>>
parseRequestBody(root, bodyOrRef, methodName, paramName, st) ==
  LET body == Call("resolve", <<root, bodyOrRef, "RequestBody">>)
      g == Call("getSchemaOrRef", <<getChild(body, "content", "MediaTypeIndex"), st>>)
      schemaOrRef == g.v
      schema == Call("resolveSchema", <<root, schemaOrRef>>)
      x == Call("parseType", <<root, schemaOrRef, paramName.value, methodName, g.st, 1>>)
      r == Call("parseRules", <<root, schema, Truthy(Child(body.node, "required"))>>)
  IN
  CASE Failed(st) \/ ~IsDef(bodyOrRef) -> Ret(<<>>, st)
    [] IsThrow(body) -> Ret(<<>>, Throw(st, body.at[1]))
    [] IsThrow(schemaOrRef) -> Ret(<<>>, Throw(g.st, schemaOrRef.at[1]))
    [] ~IsDef(schemaOrRef) -> Ret(<<>>, g.st)
    [] IsThrow(schema) -> Ret(<<>>, Throw(g.st, schema.at[1]))
    [] ~IsDef(schema) -> Ret(<<>>, g.st)
    [] Failed(x.st) -> Ret(<<>>, x.st)
    [] r.err # "" -> Ret(<<>>, Throw(x.st, r.err))
    [] OTHER -> Ret(<<Parameter(paramName,
                                Call("parseDescription", <<Undef, getLiteral(body, "description")>>),
                                x.v, <<>>, r.rules, range(body), Call("parseMeta", <<body>>))>>, x.st)

\* parseParameter(param, methodName)
parseParameter(root, param, methodName, st) ==
  LET unresolved == Call("schemaOf", <<param>>)
      resolved == Call("resolveSchema", <<root, unresolved>>)
      name == getLiteral(param, "name")
      x == Call("parseType", <<root, unresolved, strOf(name), methodName, st, 1>>)
      r == Call("parseRules", <<root, resolved, Truthy(Child(param.node, "required"))>>)
  IN
  CASE Failed(st) -> Ret(<<>>, st)
    [] IsThrow(unresolved) -> Ret(<<>>, Throw(st, unresolved.at[1]))
    [] ~IsDef(unresolved) -> Ret(<<>>, Throw(st, "Unexpected undefined schema"))
    [] IsThrow(resolved) -> Ret(<<>>, Throw(st, resolved.at[1]))
    [] ~IsDef(resolved) -> Ret(<<>>, Throw(st, "Cannot resolve reference"))
    [] Failed(x.st) -> Ret(<<>>, x.st)
    [] r.err # "" -> Ret(<<>>, Throw(x.st, r.err))
    [] OTHER -> Ret(<<Parameter(Scalar(strOf(name), range(name)),
                                Call("parseDescription", <<Undef, getLiteral(param, "description")>>),
                                x.v, IF x.v.isPrimitive THEN x.v.default ELSE <<>>,
                                r.rules, range(param), Call("parseMeta", <<param>>))>>, x.st)

\* parametersOrRefs.map((p) => resolveParam(root, p)).filter((p) => !!p):
\* a sequence, or <<ThrowW>> at the first pointer that does not resolve
RECURSIVE resolveParams(_, _, _)
resolveParams(root, ps, i) ==
  IF i > Len(ps) THEN <<>>
  ELSE LET r == Call("resolveParam", <<root, ps[i]>>) IN
       IF IsThrow(r) THEN <<r>>
       ELSE LET rest == Call("resolveParams", <<root, ps, i + 1>>) IN
            IF Len(rest) > 0 /\ IsThrow(rest[1]) THEN rest
            ELSE IF IsDef(r) THEN <<r>> \o rest ELSE rest

RECURSIVE parseParameterList(_, _, _, _, _)
parseParameterList(root, ps, i, methodName, st) ==
  IF Failed(st) \/ i > Len(ps) THEN Ret(<<>>, st)
  ELSE LET one == Call("parseParameter", <<root, ps[i], methodName, st>>)
           rest == Call("parseParameterList", <<root, ps, i + 1, methodName, one.st>>)
       IN Ret(one.v \o rest.v, rest.st)

\* [...commonParameters, ...(operation.parameters || [])]
parametersOrRefs_operationFirst(operation, commonParameters) ==
  Call("parametersOf", <<operation>>) \o commonParameters

parametersOrRefs(operation, commonParameters) == commonParameters \o Call("parametersOf", <<operation>>)

\* parseParameters(operation, commonParameters)
parseParameters(root, operation, commonParameters, st) ==
  LET parameters == Call("resolveParams", <<root, Call("parametersOrRefs", <<operation, commonParameters>>), 1>>)
      methodName == Call("operationIdOr", <<operation, "">>)
      nonBodyParams == Call("parseParameterList", <<root, parameters, 1, methodName, st>>)
      bodyParam == Call("parseRequestBody", <<root, Call("getChildOrRef", <<operation, "requestBody", "RequestBody">>),
                                    methodName, Call("parseBodyParamName", <<operation>>),
                                    nonBodyParams.st>>)
  IN
  CASE Failed(st) -> Ret(<<>>, st)
    [] parametersThrow(operation) -> Ret(<<>>, Throw(st, "Value is not an array"))
    [] Len(parameters) > 0 /\ IsThrow(parameters[1]) -> Ret(<<>>, Throw(st, parameters[1].at[1]))
    [] Failed(nonBodyParams.st) -> nonBodyParams
    [] OTHER -> Ret(bodyParam.v \o nonBodyParams.v, bodyParam.st)

\* parsePrimaryResponseKey(operation): the first key that starts with '2' when
\* it is a number, else 'default' when declared, else undefined
Primary(kind, num, loc) == [kind |-> kind, num |-> num, loc |-> loc]

parsePrimaryResponseKey_lastKey(operation) ==
  LET responses == getChild(operation, "responses", "Responses")
      hasDefault == hasKey(responses, "default")
      twos == SelectSeq(keys(responses), LAMBDA c : StartsWith(c, "2"))
      n == IF Len(twos) > 0 THEN Call("ToNumber", <<twos[Len(twos)]>>) ELSE NaN
  IN
  IF n # NaN THEN Primary("number", n, keyRange(responses, twos[Len(twos)]))
  ELSE IF hasDefault THEN Primary("default", 0, keyRange(responses, "default"))
  ELSE Primary("undefined", 0, NoLoc)

parsePrimaryResponseKey(operation) ==
  LET responses == getChild(operation, "responses", "Responses")
      hasDefault == hasKey(responses, "default")
      twos == SelectSeq(keys(responses), LAMBDA c : StartsWith(c, "2"))
      n == IF Len(twos) > 0 THEN Call("ToNumber", <<twos[1]>>) ELSE NaN
  IN
  IF n # NaN THEN Primary("number", n, keyRange(responses, twos[1]))
  ELSE IF hasDefault THEN Primary("default", 0, keyRange(responses, "default"))
  ELSE Primary("undefined", 0, NoLoc)

\* `operation.responses.read(...)` on an operation without responses
responsesMissing(operation) == ~hasKey(operation, "responses")

parseResponseCode_postAs200(root, verb, operation) ==
  IF responsesMissing(operation)
  THEN [v |-> Scalar(0, NoLoc), err |-> "TypeError: Cannot read properties of undefined (reading 'read')"]
  ELSE
    LET primary == Call("parsePrimaryResponseKey", <<operation>>)
        responses == getChild(operation, "responses", "Responses")
    IN
    IF primary.kind = "number" THEN [v |-> Scalar(primary.num, primary.loc), err |-> ""]
    ELSE IF primary.kind = "default" THEN
      LET res == Call("getChildOrRef", <<responses, "default", "Response">>)
          response == Call("resolve", <<root, res, "Response">>)
      IN
      IF IsThrow(response) THEN [v |-> Scalar(0, NoLoc), err |-> response.at[1]]
      ELSE IF IsDef(res) /\ Len(keys(getChild(response, "content", "MediaTypeIndex"))) > 0
      THEN [v |-> Scalar(CASE verb = "delete" -> 202
                           [] verb = "options" -> 204
                           [] OTHER -> 200, primary.loc),
            err |-> ""]
      ELSE [v |-> Scalar(204, primary.loc), err |-> ""]
    ELSE [v |-> Scalar(200, NoLoc), err |-> ""]

\* parseResponseCode(verb, operation): [v, err]
parseResponseCode(root, verb, operation) ==
  IF responsesMissing(operation)
  THEN [v |-> Scalar(0, NoLoc), err |-> "TypeError: Cannot read properties of undefined (reading 'read')"]
  ELSE
    LET primary == Call("parsePrimaryResponseKey", <<operation>>)
        responses == getChild(operation, "responses", "Responses")
    IN
    IF primary.kind = "number" THEN [v |-> Scalar(primary.num, primary.loc), err |-> ""]
    ELSE IF primary.kind = "default" THEN
      LET res == Call("getChildOrRef", <<responses, "default", "Response">>)
          response == Call("resolve", <<root, res, "Response">>)
      IN
      IF IsThrow(response) THEN [v |-> Scalar(0, NoLoc), err |-> response.at[1]]
      ELSE IF IsDef(res) /\ Len(keys(getChild(response, "content", "MediaTypeIndex"))) > 0
      THEN [v |-> Scalar(CASE verb = "delete" -> 202
                           [] verb = "options" -> 204
                           [] verb = "post" -> 201
                           [] OTHER -> 200, primary.loc),
            err |-> ""]
      ELSE [v |-> Scalar(204, primary.loc), err |-> ""]
    ELSE [v |-> Scalar(200, NoLoc), err |-> ""]

ComponentResponsesPrefix == "#/components/responses/"

\* parseReturnType(operation): <<>> (undefined) or <<returnType>>
parseReturnType(root, operation, st) ==
  LET primaryCode == Call("parsePrimaryResponseKey", <<operation>>)
      responses == getChild(operation, "responses", "Responses")
      key == CASE primaryCode.kind = "number" -> ToString(primaryCode.num)
               [] primaryCode.kind = "default" -> "default"
               [] OTHER -> "undefined"
      success == Call("getChildOrRef", <<responses, key, "Response">>)
      response == Call("resolve", <<root, success, "Response">>)
      name == IF isRefNode(success) /\ StartsWith(refValue(success), ComponentResponsesPrefix)
              THEN Substring(refValue(success), Len(ComponentResponsesPrefix))
              ELSE ""
      g == Call("getSchemaOrRef", <<getChild(response, "content", "MediaTypeIndex"), st>>)
      x == Call("parseType", <<root, g.v, "response",
                         IF name # "" THEN name ELSE Call("operationIdOr", <<operation, "">>), g.st, 1>>)
  IN
  CASE Failed(st) -> Ret(<<>>, st)
    [] responsesMissing(operation) ->
         Ret(<<>>, Throw(st, "TypeError: Cannot read properties of undefined (reading 'read')"))
    [] ~IsDef(success) -> Ret(<<>>, st)
    [] IsThrow(response) -> Ret(<<>>, Throw(st, response.at[1]))
    [] IsThrow(g.v) -> Ret(<<>>, Throw(g.st, g.v.at[1]))
    [] ~IsDef(g.v) -> Ret(<<>>, g.st)
    [] Failed(x.st) -> Ret(<<>>, x.st)
    [] OTHER -> Ret(<<[kind |-> "ReturnType", typeName |-> x.v.typeName,
                       isPrimitive |-> x.v.isPrimitive, isArray |-> x.v.isArray,
                       rules |-> x.v.rules, loc |-> x.v.loc, default |-> x.v.default,
                       constant |-> x.v.constant]>>, x.st)

-----------------------------------------------------------------------------
(* Security projection.                                                    *)

\* toSecuritySchemeOrRef(value)
toSecuritySchemeOrRef(v) ==
  IF ~IsDef(v) THEN Undef
  ELSE IF isRef(v.node) THEN Wrap("Ref", v.node, v.at)
  ELSE LET t == Child(v.node, "type") IN
       IF isObject(v.node) /\ isLiteral(t) /\ t.lt = "string"
          /\ t.str \in {"apiKey", "http", "oauth2", "openIdConnect"}
       THEN Wrap(CASE t.str = "apiKey" -> "ApiKeySecurityScheme"
                   [] t.str = "http" -> "HttpSecurityScheme"
                   [] t.str = "oauth2" -> "OAuth2SecurityScheme"
                   [] t.str = "openIdConnect" -> "OpenIdConnectSecurityScheme",
                 v.node, v.at)
       ELSE ThrowW("Unknown security scheme type")

\* parseScopes(scopes)
parseScopes(scopes) ==
  [i \in 1..Len(keys(scopes)) |->
     LET k == keys(scopes)[i] IN
     [kind |-> "OAuth2Scope", name |-> Scalar(k, keyRange(scopes, k)),
      description |-> Call("parseDescriptionOnly", <<getLiteral(scopes, k)>>),
      loc |-> propRange(scopes, k)]]

Flow(kind, type, flows, loc, withAuth, withToken) ==
  LET flow == getChild(flows, type, "OAuthFlow") IN
  [kind |-> kind, type |-> Scalar(type, keyRange(flows, type)),
   authorizationUrl |-> IF withAuth THEN Call("toScalar", <<getLiteral(flow, "authorizationUrl")>>) ELSE <<>>,
   refreshUrl |-> Call("toScalar", <<getLiteral(flow, "refreshUrl")>>),
   tokenUrl |-> IF withToken THEN Call("toScalar", <<getLiteral(flow, "tokenUrl")>>) ELSE <<>>,
   scopes |-> Call("parseScopes", <<getChild(flow, "scopes", "StringMapping")>>),
   loc |-> loc]

\* parseOAuth2Flows(flows, name, loc)
parseOAuth2Flows(flows, loc) ==
  (IF hasKey(flows, "authorizationCode")
   THEN <<Flow("OAuth2AuthorizationCodeFlow", "authorizationCode", flows, loc, TRUE, TRUE)>> ELSE <<>>)
  \o (IF hasKey(flows, "clientCredentials")
      THEN <<Flow("OAuth2ClientCredentialsFlow", "clientCredentials", flows, loc, FALSE, TRUE)>> ELSE <<>>)
  \o (IF hasKey(flows, "implicit")
      THEN <<Flow("OAuth2ImplicitFlow", "implicit", flows, loc, TRUE, FALSE)>> ELSE <<>>)
  \o (IF hasKey(flows, "password")
      THEN <<Flow("OAuth2PasswordFlow", "password", flows, loc, FALSE, TRUE)>> ELSE <<>>)

Scheme(kind, type, name, description, parameter, in, flows, loc, meta) ==
  [kind |-> kind, type |-> type, name |-> name, description |-> description,
   parameter |-> parameter, in |-> in, flows |-> flows, loc |-> loc, meta |-> meta]

\* parseHttpSecurity(definition, name, loc)
parseHttpSecurity(definition, name, loc) ==
  Scheme("BasicScheme", Scalar("basic", range(getLiteral(definition, "type"))), name,
         <<>>, <<>>, <<>>, <<>>, loc, Call("parseMeta", <<definition>>))

\* parseApiKeySecurity(definition, name, loc)
parseApiKeySecurity(definition, name, loc) ==
  Scheme("ApiKeyScheme", Scalar("apiKey", range(getLiteral(definition, "type"))), name,
         Call("parseDescriptionOnly", <<getLiteral(definition, "description")>>),
         Call("toScalar", <<getLiteral(definition, "name")>>), Call("toScalar", <<getLiteral(definition, "in")>>),
         <<>>, loc, Call("parseMeta", <<definition>>))

\* parseOAuth2Security(definition, name, loc)
parseOAuth2Security(definition, name, loc) ==
  Scheme("OAuth2Scheme", Scalar("oauth2", range(getLiteral(definition, "type"))), name,
         Call("parseDescriptionOnly", <<getLiteral(definition, "description")>>), <<>>, <<>>,
         Call("parseOAuth2Flows", <<getChild(definition, "flows", "OAuthFlows"), loc>>),
         loc, Call("parseMeta", <<definition>>))

\* this.schema.components?.securitySchemes
securitySchemesOf(root) ==
  getChild(getChild(root, "components", "Components"), "securitySchemes", "SecuritySchemeIndex")

securityOf_withDocument(root, operation) ==
  (IF hasArray(operation, "security") THEN getArray(operation, "security", "SecurityRequirement")
   ELSE <<>>) \o getArray(root, "security", "SecurityRequirement")

\* operationSecurity || defaultSecurity || []
securityOf(root, operation) ==
  IF hasArray(operation, "security") THEN getArray(operation, "security", "SecurityRequirement")
  ELSE getArray(root, "security", "SecurityRequirement")

\* the scheme of one requirement key: <<>>, <<scheme>> or <<ThrowW>>
parseSecurityKey(root, requirements, key) ==
  LET securitySchemes == Call("securitySchemesOf", <<root>>)
      definition == Call("toSecuritySchemeOrRef", <<getChild(securitySchemes, key, "AST")>>)
      name == Scalar(key, keyRange(securitySchemes, key))
      loc == propRange(securitySchemes, key)
  IN
  IF arrayThrows(requirements, key) THEN <<ThrowW("Value is not an array")>>
  ELSE IF IsThrow(definition) THEN <<definition>>
  ELSE IF ~hasArray(requirements, key) \/ ~IsDef(definition) THEN <<>>
  ELSE CASE definition.nodeType = "HttpSecurityScheme" -> <<Call("parseHttpSecurity", <<definition, name, loc>>)>>
         [] definition.nodeType = "ApiKeySecurityScheme" -> <<Call("parseApiKeySecurity", <<definition, name, loc>>)>>
         [] definition.nodeType = "OAuth2SecurityScheme" -> <<Call("parseOAuth2Security", <<definition, name, loc>>)>>
         [] OTHER -> <<>>

RECURSIVE Flatten(_)
Flatten(ss) == IF Len(ss) = 0 THEN <<>> ELSE Head(ss) \o Flatten(Tail(ss))

\* the error thrown while a list of optional results was built ("" when none)
FirstThrow(xs) ==
  LET bad == SelectSeq(xs, LAMBDA x : "nodeType" \in DOMAIN x /\ x.nodeType = "throw") IN
  IF Len(bad) > 0 THEN bad[1].at[1] ELSE ""

\* parseSecurity(operation): [v, err]
parseSecurity(root, operation) ==
  IF arrayThrows(root, "security") \/ arrayThrows(operation, "security")
  THEN [v |-> <<>>, err |-> "Value is not an array"]
  ELSE
    LET security == Call("securityOf", <<root, operation>>)
        options == [i \in 1..Len(security) |->
                      Flatten([j \in 1..Len(keys(security[i])) |->
                                 Call("parseSecurityKey", <<root, security[i], keys(security[i])[j]>>)])]
        err == FirstThrow(Flatten(options))
    IN IF err # "" THEN [v |-> <<>>, err |-> err] ELSE [v |-> options, err |-> ""]

-----------------------------------------------------------------------------
(* HTTP projection: operations, interfaces, methods and bindings.          *)

Verbs == {"get", "put", "post", "delete", "options", "head", "patch", "trace"}

TypeError == "TypeError: Cannot read properties of undefined"

\* this.schema.paths
pathsOf(root) == getChild(root, "paths", "Paths")

\* pathItem[verb]: the property of the view object that the key names.  A
\* verb gives the operation view, 'summary' and 'description' the literal,
\* 'servers' the array of server views, any other key no property at all
pathItemProp(pathItem, verb) ==
  IF pathItem.nodeType = "Ref"
  THEN IF verb = "$ref" THEN getLiteral(pathItem, "$ref") ELSE Undef
  ELSE IF verb \in Verbs THEN getChild(pathItem, verb, "Operation")
  ELSE IF verb \in {"summary", "description"} THEN getLiteral(pathItem, verb)
  ELSE IF verb = "servers" THEN getChild(pathItem, verb, "ServerArray")
  ELSE Undef

\* parseInterfaceName(path, operation): [v, err]
parseInterfaceName(path, operation) ==
  LET segs == Call("Split", <<path, "/">>)
      fromPath == IF Len(segs) >= 2 THEN segs[2] ELSE "undefined"
  IN
  IF ~IsDef(operation) THEN [v |-> "", err |-> TypeError]
  ELSE IF arrayThrows(operation, "tags") THEN [v |-> "", err |-> "Value is not an array"]
  ELSE IF ~hasArray(operation, "tags") THEN [v |-> fromPath, err |-> ""]
  ELSE LET tags == getArray(operation, "tags", "Literal") IN
       IF Len(tags) = 0 THEN [v |-> "", err |-> TypeError]
       ELSE IF Truthy(tags[1].node) THEN [v |-> strOf(tags[1]), err |-> ""]
       ELSE [v |-> fromPath, err |-> ""]

\* allOperations(): the (path, verb, operation) triples in document order
allOperations(root) ==
  LET paths == Call("pathsOf", <<root>>) IN
  Flatten([i \in 1..Len(keys(paths)) |->
    LET path == keys(paths)[i]
        item == Call("getChildOrRef", <<paths, path, "PathItem">>)
        verbs == SelectSeq(keys(item), LAMBDA verb : verb # "parameters" /\ ~StartsWith(verb, "x-"))
    IN [j \in 1..Len(verbs) |->
          [path |-> path, verb |-> verbs[j], operation |-> Call("pathItemProp", <<item, verbs[j]>>)]]])

\* Array.from(new Set(names)): first occurrences, in order
RECURSIVE Distinct(_)
Distinct(xs) ==
  IF Len(xs) = 0 THEN <<>>
  ELSE LET init == Call("Distinct", <<SubSeq(xs, 1, Len(xs) - 1)>>)
           last == xs[Len(xs)]
       IN IF \E i \in 1..Len(init) : init[i] = last THEN init ELSE Append(init, last)

\* parserInterfaceNames(): [v, err]
parserInterfaceNames(root) ==
  LET ops == Call("allOperations", <<root>>)
      names == [i \in 1..Len(ops) |-> Call("parseInterfaceName", <<ops[i].path, ops[i].operation>>)]
      bad == SelectSeq(names, LAMBDA n : n.err # "")
  IN
  IF Len(bad) > 0 THEN [v |-> <<>>, err |-> bad[1].err]
  ELSE [v |-> Call("Distinct", <<[i \in 1..Len(names) |-> names[i].v]>>), err |-> ""]

\* one iteration of the loop of parseMethods
parseMethod(root, op, interfaceName, st) ==
  LET paths == Call("pathsOf", <<root>>)
      pathNode == Call("resolve", <<root, Call("getChildOrRef", <<paths, op.path, "PathItem">>), "PathItem">>)
      operation == op.operation
      commonParameters == Call("parametersOf", <<pathNode>>)
      iname == Call("parseInterfaceName", <<op.path, operation>>)
      id == getLiteral(operation, "operationId")
      security == Call("parseSecurity", <<root, operation>>)
      parameters == Call("parseParameters", <<root, operation, commonParameters, st>>)
      returnType == Call("parseReturnType", <<root, operation, parameters.st>>)
  IN
  CASE IsThrow(pathNode) -> Ret(<<>>, Throw(st, pathNode.at[1]))
    [] parametersThrow(pathNode) -> Ret(<<>>, Throw(st, "Value is not an array"))
    [] iname.err # "" -> Ret(<<>>, Throw(st, iname.err))
    [] iname.v # interfaceName -> Ret(<<>>, st)
    [] security.err # "" -> Ret(<<>>, Throw(st, security.err))
    [] operation.nodeType = "ServerArray" -> Ret(<<>>, Throw(st, TypeError))
    [] Failed(parameters.st) -> Ret(<<>>, parameters.st)
    [] Failed(returnType.st) -> Ret(<<>>, returnType.st)
    [] OTHER -> Ret(<<[kind |-> "Method",
                       name |-> Scalar(Call("operationIdOr", <<operation, "UNNAMED">>),
                                       IF IsDef(id) THEN range(id) ELSE NoLoc),
                       security |-> security.v,
                       parameters |-> parameters.v,
                       description |-> Call("parseDescription", <<getLiteral(operation, "summary"),
                                                        getLiteral(operation, "description")>>),
                       returnType |-> returnType.v,
                       loc |-> propRange(Call("getChildOrRef", <<paths, op.path, "PathItem">>), op.verb),
                       meta |-> Call("parseMeta", <<operation>>)]>>, returnType.st)

RECURSIVE parseMethodsFrom(_, _, _, _, _)
parseMethodsFrom(root, ops, i, interfaceName, st) ==
  IF Failed(st) \/ i > Len(ops) THEN Ret(<<>>, st)
  ELSE LET one == Call("parseMethod", <<root, ops[i], interfaceName, st>>)
           rest == Call("parseMethodsFrom", <<root, ops, i + 1, interfaceName, one.st>>)
       IN Ret(one.v \o rest.v, rest.st)

\* parseMethods(interfaceName)
parseMethods(root, interfaceName, st) ==
  Call("parseMethodsFrom", <<root, Call("allOperations", <<root>>), 1, interfaceName, st>>)

\* parseArrayStyle(paramNode)
parseArrayStyle(paramNode, st) ==
  LET style == getLiteral(paramNode, "style")
      v == strOf(style)
  IN
  IF ~IsDef(style) THEN Ret(Scalar("csv", NoLoc), st)
  ELSE IF v \in {"matrix", "label"}
  THEN Ret(Scalar("csv", range(style)),
           [st EXCEPT !.violations =
              Append(@, Violation("Parameter style '" \o v \o "' is not yet supported. The default 'csv' array style will be used instead.", range(style)))])
  ELSE Ret(Scalar(CASE v = "form" ->
                         IF Truthy(Child(paramNode.node, "explode")) THEN "multi" ELSE "csv"
                    [] v = "simple" -> "csv"
                    [] v = "spaceDelimited" -> "ssv"
                    [] v = "pipeDelimited" -> "pipes"
                    [] OTHER -> "csv", range(style)), st)

HttpParameter(name, in, array, loc) ==
  [kind |-> "HttpParameter", name |-> name, in |-> in, array |-> array, loc |-> loc]

\* [...(operation.parameters || []), ...commonParameters]
httpParametersOrRefs(operation, commonParameters) == Call("parametersOf", <<operation>>) \o commonParameters

\* the loop over the parameters of one operation in parseHttpProtocol
RECURSIVE parseHttpParameters(_, _, _, _)
parseHttpParameters(root, ps, i, st) ==
  LET resolved == Call("resolveParam", <<root, ps[i]>>)
      name == getLiteral(resolved, "name")
      location == getLiteral(resolved, "in")
      locationValue == strOf(location)
      isArr == locationValue \in {"header", "path", "query"}
               /\ Call("schemaOf", <<resolved>>).nodeType = "ArraySchema"
      style == IF isArr THEN Call("parseArrayStyle", <<resolved, st>>) ELSE Ret(NoStr, st)
      rest == Call("parseHttpParameters", <<root, ps, i + 1, style.st>>)
  IN
  CASE Failed(st) \/ i > Len(ps) -> Ret(<<>>, st)
    [] IsThrow(resolved) -> Ret(<<>>, Throw(st, resolved.at[1]))
    [] ~IsDef(resolved) -> Ret(<<>>, Throw(st, "Cannot resolve reference"))
    [] locationValue = "cookie" ->
         Call("parseHttpParameters", <<root, ps, i + 1,
           [st EXCEPT !.violations =
              Append(@, Violation("Cookie is not yet supported. This parameter will be ignored.", range(location)))]>>)
    [] IsThrow(Call("schemaOf", <<resolved>>)) -> Ret(<<>>, Throw(st, Call("schemaOf", <<resolved>>).at[1]))
    [] OTHER -> Ret(<<HttpParameter(Scalar(strOf(name), range(name)),
                                    Scalar(locationValue, range(location)),
                                    IF isArr THEN <<style.v>> ELSE <<>>,
                                    range(resolved))>> \o rest.v, rest.st)

\* one iteration of the loop over pathItem.keys in parseHttpProtocol
parseHttpMethod(root, path, pathItem, verb, commonParameters, interfaceName, st) ==
  LET operation == Call("pathItemProp", <<pathItem, verb>>)
      iname == Call("parseInterfaceName", <<path, operation>>)
      id == getLiteral(operation, "operationId")
      methodName == Call("operationIdOr", <<operation, "unknown">>)
      successCode == Call("parseResponseCode", <<root, verb, operation>>)
      body == Call("parseRequestBody", <<root, Call("getChildOrRef", <<operation, "requestBody", "RequestBody">>),
                               methodName, Call("parseBodyParamName", <<operation>>), st>>)
      bodyParams == IF Len(body.v) > 0
                    THEN <<HttpParameter(body.v[1].name, Scalar("body", NoLoc), <<>>, body.v[1].loc)>>
                    ELSE <<>>
      params == Call("parseHttpParameters", <<root, Call("httpParametersOrRefs", <<operation, commonParameters>>),
                                      1, body.st>>)
  IN
  CASE verb = "parameters" -> Ret(<<>>, st)
    [] iname.err # "" -> Ret(<<>>, Throw(st, iname.err))
    [] iname.v # interfaceName -> Ret(<<>>, st)
    [] successCode.err # "" -> Ret(<<>>, Throw(st, successCode.err))
    [] operation.nodeType = "ServerArray" -> Ret(<<>>, Throw(st, TypeError))
    [] Failed(body.st) -> Ret(<<>>, body.st)
    [] parametersThrow(operation) -> Ret(<<>>, Throw(body.st, "Value is not an array"))
    [] Failed(params.st) -> Ret(<<>>, params.st)
    [] OTHER -> Ret(<<[kind |-> "HttpMethod",
                       name |-> Scalar(methodName, IF IsDef(id) THEN range(id) ELSE NoLoc),
                       verb |-> Scalar(verb, keyRange(pathItem, verb)),
                       parameters |-> bodyParams \o params.v,
                       successCode |-> successCode.v,
                       loc |-> propRange(pathItem, verb)]>>, params.st)

RECURSIVE parseHttpMethods(_, _, _, _, _, _, _)
parseHttpMethods(root, path, pathItem, i, commonParameters, interfaceName, st) ==
  IF Failed(st) \/ i > Len(keys(pathItem)) THEN Ret(<<>>, st)
  ELSE LET one == Call("parseHttpMethod", <<root, path, pathItem, keys(pathItem)[i], commonParameters,
                                  interfaceName, st>>)
           rest == Call("parseHttpMethods", <<root, path, pathItem, i + 1, commonParameters,
                                    interfaceName, one.st>>)
       IN Ret(one.v \o rest.v, rest.st)

\* one iteration of the loop over the paths in parseHttpProtocol
parseHttpPath(root, path, interfaceName, st) ==
  LET paths == Call("pathsOf", <<root>>)
      pathItem == Call("resolve", <<root, Call("getChildOrRef", <<paths, path, "PathItem">>), "PathItem">>)
      methods == Call("parseHttpMethods", <<root, path, pathItem, 1, Call("parametersOf", <<pathItem>>),
                                      interfaceName, st>>)
  IN
  CASE IsThrow(pathItem) -> Ret(<<>>, Throw(st, pathItem.at[1]))
    [] parametersThrow(pathItem) -> Ret(<<>>, Throw(st, "Value is not an array"))
    [] Failed(methods.st) \/ Len(methods.v) = 0 -> Ret(<<>>, methods.st)
    [] OTHER -> Ret(<<[kind |-> "HttpPath", path |-> Scalar(path, keyRange(paths, path)),
                       methods |-> methods.v, loc |-> propRange(paths, path)]>>, methods.st)

RECURSIVE parseHttpPaths(_, _, _, _)
parseHttpPaths(root, i, interfaceName, st) ==
  IF Failed(st) \/ i > Len(keys(Call("pathsOf", <<root>>))) THEN Ret(<<>>, st)
  ELSE LET one == Call("parseHttpPath", <<root, keys(Call("pathsOf", <<root>>))[i], interfaceName, st>>)
           rest == Call("parseHttpPaths", <<root, i + 1, interfaceName, one.st>>)
       IN Ret(one.v \o rest.v, rest.st)

\* parseHttpProtocol(interfaceName)
parseHttpProtocol(root, interfaceName, st) == Call("parseHttpPaths", <<root, 1, interfaceName, st>>)

RECURSIVE parseInterfacesFrom(_, _, _, _)
parseInterfacesFrom(root, names, i, st) ==
  IF Failed(st) \/ i > Len(names) THEN Ret(<<>>, st)
  ELSE LET methods == Call("parseMethods", <<root, names[i], st>>)
           http == Call("parseHttpProtocol", <<root, names[i], methods.st>>)
           rest == Call("parseInterfacesFrom", <<root, names, i + 1, http.st>>)
       IN Ret(<<[kind |-> "Interface", name |-> Scalar(Call("singular", <<names[i]>>), NoLoc),
                 methods |-> methods.v, protocols |-> [http |-> http.v]]>> \o rest.v, rest.st)

\* parseInterfaces()
parseInterfaces(root, st) ==
  LET names == Call("parserInterfaceNames", <<root>>) IN
  IF names.err # "" THEN Ret(<<>>, Throw(st, names.err))
  ELSE Call("parseInterfacesFrom", <<root, names.v, 1, st>>)

-----------------------------------------------------------------------------
(* Component definitions and the assembly of the service.                  *)

\* getSchemas(): this.schema.components?.schemas
getSchemas(root) == getChild(getChild(root, "components", "Components"), "schemas", "SchemaIndex")

\* getSchema(name)
getSchema(root, name) ==
  LET schemaOrRef == Call("readSchema", <<Call("getSchemas", <<root>>), name>>) IN
  IF isRefNode(schemaOrRef) THEN Call("resolveSchema", <<root, schemaOrRef>>) ELSE schemaOrRef

\* the body of definitions.map(...) of parseDefinitions, for the schema `name`
RECURSIVE parseDefinitionsFrom(_, _, _, _)
parseDefinitionsFrom(root, names, i, st) ==
  IF Failed(st) \/ i > Len(names) THEN Ret(<<>>, st)
  ELSE
    LET schemas == Call("getSchemas", <<root>>)
        name == names[i]
        node == Call("getSchema", <<root, name>>)
        ps == Call("parseProperties", <<root, getChild(node, "properties", "Properties"),
                              Call("requiredOf", <<node>>), hasComposite(node, "allOf"), node, name, st, 1>>)
        rest == Call("parseDefinitionsFrom", <<root, names, i + 1, ps.st>>)
    IN Ret(<<[kind |-> "Type", name |-> Scalar(name, keyRange(schemas, name)),
              properties |-> ps.v,
              description |-> Call("strScalar", <<getLiteral(node, "description")>>),
              rules |-> Call("parseObjectRules", <<node>>),
              loc |-> propRange(schemas, name), meta |-> Call("parseMeta", <<node>>)]>> \o rest.v, rest.st)

\* parseDefinitions()
parseDefinitions(root, st) ==
  LET schemas == Call("getSchemas", <<root>>) IN
  IF ~IsDef(schemas) THEN Ret(<<>>, st)
  ELSE
    LET names == keys(schemas)
        firstBad == SelectSeq(names, LAMBDA n : ~IsDef(Call("getSchema", <<root, n>>)) \/ IsThrow(Call("getSchema", <<root, n>>)))
    IN
    IF Len(firstBad) > 0
    THEN Ret(<<>>, Throw(st, IF IsThrow(Call("getSchema", <<root, firstBad[1]>>))
                             THEN Call("getSchema", <<root, firstBad[1]>>).at[1] ELSE TypeError))
    ELSE Call("parseDefinitionsFrom", <<root,
           SelectSeq(names, LAMBDA n : Call("getSchema", <<root, n>>).nodeType = "ObjectSchema"), 1, st>>)

\* items.reduce((acc, item) => ({ ...acc, [item.name.value]: item }), {}) and
\* Object.keys(byName).map((name) => byName[name]): one entry per name, at
\* the position of the name's first entry and with the value of its last
byName_keepAll(items) == items

byName_firstWins(items) ==
  LET names == Call("Distinct", <<[i \in 1..Len(items) |-> items[i].name.value]>>)
      firstOf(n) == CHOOSE i \in 1..Len(items) :
                      /\ items[i].name.value = n
                      /\ \A j \in 1..(i - 1) : items[j].name.value # n
  IN [k \in 1..Len(names) |-> items[firstOf(names[k])]]

byName(items) ==
  LET names == Call("Distinct", <<[i \in 1..Len(items) |-> items[i].name.value]>>)
      lastOf(n) == CHOOSE i \in 1..Len(items) :
                     /\ items[i].name.value = n
                     /\ \A j \in (i + 1)..Len(items) : items[j].name.value # n
  IN [k \in 1..Len(names) |-> items[lastOf(names[k])]]

NoService == [kind |-> "None"]

\* nothing looked up yet
NoLookup ==
  [target |-> Undef, inline |-> Undef, referred |-> Undef,
   localName |-> "", parentName |-> "", descriptor |-> NoTV,
   required |-> FALSE, rules |-> <<>>]

\* the object parse() returns
Service(root, interfaces_, types_, enums_, unions_, anonymousTypes_) ==
  LET info == getChild(root, "info", "Info")
      title == getLiteral(info, "title")
      version == getLiteral(info, "version")
  IN [kind |-> "Service",
      basketry |-> "1.1-rc",
      title |-> Scalar(Call("pascal", <<strOf(title)>>), range(title)),
      majorVersion |-> Scalar(Call("major", <<strOf(version)>>), range(version)),
      interfaces |-> interfaces_,
      types |-> Call("byName", <<types_ \o anonymousTypes_>>),
      enums |-> Call("byName", <<enums_>>),
      unions |-> Call("byName", <<unions_>>),
      loc |-> range(root),
      meta |-> Call("parseMeta", <<root>>)]

-----------------------------------------------------------------------------
(* Calls.  A call of a function or method of the program is written        *)
(* Call(name, <<arguments>>) and dispatched here to the definition of that *)
(* name.                                                                   *)

Call(op, a) ==
  CASE op = "Split" -> Split(a[1], a[2])
    [] op = "ToNumber" -> ToNumber(a[1])
    [] op = "pascal" -> pascal(a[1])
    [] op = "camel" -> camel(a[1])
    [] op = "kebab" -> kebab(a[1])
    [] op = "singular" -> singular(a[1])
    [] op = "major" -> major(a[1])
    [] op = "resolveSegments" -> resolveSegments(a[1], a[2], a[3], a[4])
    [] op = "resolveRef" -> resolveRef(a[1], a[2])
    [] op = "refRange" -> refRange(a[1], a[2])
    [] op = "toSchemaOrRef" -> toSchemaOrRef(a[1])
    [] op = "resolveSchema" -> resolveSchema(a[1], a[2])
    [] op = "resolve" -> resolve(a[1], a[2], a[3])
    [] op = "resolveParam" -> resolveParam(a[1], a[2])
    [] op = "getChildOrRef" -> getChildOrRef(a[1], a[2], a[3])
    [] op = "parametersOf" -> parametersOf(a[1])
    [] op = "schemaOf" -> schemaOf(a[1])
    [] op = "itemsOf" -> itemsOf(a[1])
    [] op = "readSchema" -> readSchema(a[1], a[2])
    [] op = "compositeAll" -> compositeAll(a[1], a[2])
    [] op = "compositeThrows" -> compositeThrows(a[1], a[2])
    [] op = "compositeOf" -> compositeOf(a[1], a[2])
    [] op = "toScalar" -> toScalar(a[1])
    [] op = "strScalar" -> strScalar(a[1])
    [] op = "parseDescriptionOnly" -> parseDescriptionOnly(a[1])
    [] op = "parseDescription" -> parseDescription(a[1], a[2])
    [] op = "toJson" -> toJson(a[1])
    [] op = "parseMeta" -> parseMeta(a[1])
    [] op = "stringEnumFactory" -> stringEnumFactory(a[1])
    [] op = "stringFormatFactory" -> stringFormatFactory(a[1])
    [] op = "stringMaxLengthFactory" -> stringMaxLengthFactory(a[1])
    [] op = "stringMinLengthFactory" -> stringMinLengthFactory(a[1])
    [] op = "stringPatternFactory" -> stringPatternFactory(a[1])
    [] op = "numberMultipleOfFactory" -> numberMultipleOfFactory(a[1])
    [] op = "numberGreaterThanFactory" -> numberGreaterThanFactory(a[1])
    [] op = "numberLessThanFactory" -> numberLessThanFactory(a[1])
    [] op = "arrayMinItemsFactory" -> arrayMinItemsFactory(a[1])
    [] op = "arrayMaxItemsFactory" -> arrayMaxItemsFactory(a[1])
    [] op = "arrayUniqueItemsFactory" -> arrayUniqueItemsFactory(a[1])
    [] op = "factories" -> factories(a[1])
    [] op = "objectMinPropertiesFactory" -> objectMinPropertiesFactory(a[1])
    [] op = "objectMaxPropertiesFactory" -> objectMaxPropertiesFactory(a[1])
    [] op = "objectAdditionalPropertiesFactory" -> objectAdditionalPropertiesFactory(a[1])
    [] op = "parseObjectRules" -> parseObjectRules(a[1])
    [] op = "parseSchema" -> parseSchema(a[1], a[2])
    [] op = "parseRules" -> parseRules(a[1], a[2], a[3])
    [] op = "enumValues" -> enumValues(a[1])
    [] op = "parseStringName" -> parseStringName(a[1])
    [] op = "parseNumberName" -> parseNumberName(a[1])
    [] op = "requiredOf" -> requiredOf(a[1])
    [] op = "parseType" -> parseType(a[1], a[2], a[3], a[4], a[5], a[6])
    [] op = "parseMembers" -> parseMembers(a[1], a[2], a[3], a[4], a[5], a[6], a[7])
    [] op = "parseProperties" -> parseProperties(a[1], a[2], a[3], a[4], a[5], a[6], a[7], a[8])
    [] op = "parseAllOf" -> parseAllOf(a[1], a[2], a[3], a[4], a[5], a[6], a[7])
    [] op = "parseProps" -> parseProps(a[1], a[2], a[3], a[4], a[5], a[6], a[7])
    [] op = "getSchemaOrRef" -> getSchemaOrRef(a[1], a[2])
    [] op = "operationIdOr" -> operationIdOr(a[1], a[2])
    [] op = "parseBodyParamName" -> parseBodyParamName(a[1])
    [] op = "parseRequestBody" -> parseRequestBody(a[1], a[2], a[3], a[4], a[5])
    [] op = "parseParameter" -> parseParameter(a[1], a[2], a[3], a[4])
    [] op = "resolveParams" -> resolveParams(a[1], a[2], a[3])
    [] op = "parseParameterList" -> parseParameterList(a[1], a[2], a[3], a[4], a[5])
    [] op = "parametersOrRefs" -> parametersOrRefs(a[1], a[2])
    [] op = "parseParameters" -> parseParameters(a[1], a[2], a[3], a[4])
    [] op = "parsePrimaryResponseKey" -> parsePrimaryResponseKey(a[1])
    [] op = "parseResponseCode" -> parseResponseCode(a[1], a[2], a[3])
    [] op = "parseReturnType" -> parseReturnType(a[1], a[2], a[3])
    [] op = "toSecuritySchemeOrRef" -> toSecuritySchemeOrRef(a[1])
    [] op = "parseScopes" -> parseScopes(a[1])
    [] op = "parseOAuth2Flows" -> parseOAuth2Flows(a[1], a[2])
    [] op = "parseHttpSecurity" -> parseHttpSecurity(a[1], a[2], a[3])
    [] op = "parseApiKeySecurity" -> parseApiKeySecurity(a[1], a[2], a[3])
    [] op = "parseOAuth2Security" -> parseOAuth2Security(a[1], a[2], a[3])
    [] op = "securitySchemesOf" -> securitySchemesOf(a[1])
    [] op = "securityOf" -> securityOf(a[1], a[2])
    [] op = "parseSecurityKey" -> parseSecurityKey(a[1], a[2], a[3])
    [] op = "parseSecurity" -> parseSecurity(a[1], a[2])
    [] op = "pathsOf" -> pathsOf(a[1])
    [] op = "pathItemProp" -> pathItemProp(a[1], a[2])
    [] op = "parseInterfaceName" -> parseInterfaceName(a[1], a[2])
    [] op = "allOperations" -> allOperations(a[1])
    [] op = "Distinct" -> Distinct(a[1])
    [] op = "parserInterfaceNames" -> parserInterfaceNames(a[1])
    [] op = "parseMethod" -> parseMethod(a[1], a[2], a[3], a[4])
    [] op = "parseMethodsFrom" -> parseMethodsFrom(a[1], a[2], a[3], a[4], a[5])
    [] op = "parseMethods" -> parseMethods(a[1], a[2], a[3])
    [] op = "parseArrayStyle" -> parseArrayStyle(a[1], a[2])
    [] op = "httpParametersOrRefs" -> httpParametersOrRefs(a[1], a[2])
    [] op = "parseHttpParameters" -> parseHttpParameters(a[1], a[2], a[3], a[4])
    [] op = "parseHttpMethod" -> parseHttpMethod(a[1], a[2], a[3], a[4], a[5], a[6], a[7])
    [] op = "parseHttpMethods" -> parseHttpMethods(a[1], a[2], a[3], a[4], a[5], a[6], a[7])
    [] op = "parseHttpPath" -> parseHttpPath(a[1], a[2], a[3], a[4])
    [] op = "parseHttpPaths" -> parseHttpPaths(a[1], a[2], a[3], a[4])
    [] op = "parseHttpProtocol" -> parseHttpProtocol(a[1], a[2], a[3])
    [] op = "parseInterfacesFrom" -> parseInterfacesFrom(a[1], a[2], a[3], a[4])
    [] op = "parseInterfaces" -> parseInterfaces(a[1], a[2])
    [] op = "getSchemas" -> getSchemas(a[1])
    [] op = "getSchema" -> getSchema(a[1], a[2])
    [] op = "parseDefinitionsFrom" -> parseDefinitionsFrom(a[1], a[2], a[3], a[4])
    [] op = "parseDefinitions" -> parseDefinitions(a[1], a[2])
    [] op = "byName" -> byName(a[1])

-----------------------------------------------------------------------------
(* The documents parsed: trees as the external text parser delivers them. *)

Ref(pointer) == Obj(<<KV("$ref", Str(pointer))>>)

StringSchema == Obj(<<KV("type", Str("string"))>>)
IntegerSchema == Obj(<<KV("type", Str("integer")), KV("format", Str("int32"))>>)
BoundedString == Obj(<<KV("type", Str("string")), KV("maxLength", Num(8)), KV("default", Str("x"))>>)
EnumSchema == Obj(<<KV("type", Str("string")), KV("enum", Arr(<<Str("cat"), Str("dog")>>))>>)
NullSchema == Obj(<<KV("type", Str("null"))>>)
ArrayOf(items) == Obj(<<KV("type", Str("array")), KV("items", items)>>)
ArrayNoItems == Obj(<<KV("type", Str("array"))>>)
ObjectOf(properties) == Obj(<<KV("type", Str("object")), KV("properties", Obj(properties))>>)

ParameterOf(name, in, schema) ==
  Obj(<<KV("name", Str(name)), KV("in", Str(in)), KV("schema", schema)>>)
MediaOf(schema) == Obj(<<KV("schema", schema)>>)
JsonContent(schema) == Obj(<<KV("application/json", MediaOf(schema))>>)
TwoContents(first, second) ==
  Obj(<<KV("application/json", MediaOf(first)), KV("text/plain", MediaOf(second))>>)
BodyOf(content) == Obj(<<KV("required", Bool(TRUE)), KV("content", content)>>)
ResponseOf(content) == Obj(<<KV("description", Str("ok")), KV("content", content)>>)
NoContent == Obj(<<KV("description", Str("done"))>>)

\* an operation from its properties, in document order
OperationOf(id, tags, rest) ==
  Obj((IF tags = <<>> THEN <<>> ELSE <<KV("tags", Arr(tags[1]))>>)
      \o <<KV("operationId", Str(id))>> \o rest)

PetSchema ==
  Obj(<<KV("type", Str("object")),
        KV("description", Str("A pet")),
        KV("required", Arr(<<Str("name")>>)),
        KV("properties", Obj(<<KV("id", IntegerSchema),
                               KV("name", BoundedString),
                               KV("kind", Ref("#/components/schemas/Kind")),
                               KV("moods", ArrayOf(EnumSchema)),
                               KV("owner", ObjectOf(<<KV("name", StringSchema)>>))>>)),
        KV("x-table", Str("pets"))>>)

\* the component sections the documents are built with
SharedComponents ==
  <<KV("parameters", Obj(<<KV("Limit", ParameterOf("limit", "query", IntegerSchema))>>)),
    KV("responses", Obj(<<KV("PetResponse",
         ResponseOf(JsonContent(Ref("#/components/schemas/Pet"))))>>))>>

PlainComponents ==
  <<KV("components", Obj(<<KV("schemas", Obj(<<
      KV("Pet", PetSchema),
      KV("Kind", EnumSchema),
      KV("Pets", ArrayOf(Ref("#/components/schemas/Pet"))),
      KV("fooBody", ObjectOf(<<
          KV("a", StringSchema),
          KV("mode", Obj(<<KV("type", Str("string")), KV("enum", Arr(<<Str("bird")>>))>>)),
          KV("choice", Obj(<<KV("oneOf", Arr(<<ObjectOf(<<KV("z", StringSchema)>>)>>))>>))>>))>>)),
    SharedComponents[1], SharedComponents[2]>>))>>

ComposedComponents ==
  <<KV("components", Obj(<<KV("schemas", Obj(<<
      KV("Base", ObjectOf(<<KV("id", IntegerSchema)>>)),
      KV("Pet", Obj(<<KV("required", Arr(<<Str("id")>>)),
                      KV("allOf", Arr(<<Ref("#/components/schemas/Base"),
                                        ObjectOf(<<KV("name", StringSchema)>>)>>))>>)),
      KV("Kind", Ref("#/components/schemas/Base")),
      KV("Node", ObjectOf(<<KV("next", Ref("#/components/schemas/Node")),
                            KV("choice", Obj(<<KV("oneOf",
                               Arr(<<Ref("#/components/schemas/Base"),
                                     Ref("#/components/schemas/Pet")>>))>>))>>)),
      KV("Pets", ArrayOf(Ref("#/components/schemas/Pet")))>>)),
    SharedComponents[1], SharedComponents[2]>>))>>

CyclicComponents ==
  <<KV("components", Obj(<<KV("schemas", Obj(<<
      KV("Pet", Obj(<<KV("allOf", Arr(<<Ref("#/components/schemas/Pet")>>)),
                      KV("properties", Obj(<<KV("id", IntegerSchema)>>))>>)),
      KV("Kind", EnumSchema),
      KV("Pets", ArrayOf(Ref("#/components/schemas/Pets")))>>)),
    SharedComponents[1], SharedComponents[2]>>))>>

ComponentSets == {<<>>, PlainComponents, ComposedComponents, CyclicComponents}

ListPets ==
  KV("get", OperationOf("listPets", <<<<Str("pets"), Str("read")>>>>, <<
      KV("summary", Str("List")), KV("description", Str("All the pets")),
      KV("parameters", Arr(<<ParameterOf("kind", "query", EnumSchema),
                             ParameterOf("ids", "query", ArrayOf(IntegerSchema))>>)),
      KV("responses", Obj(<<KV("200",
          ResponseOf(JsonContent(ArrayOf(Ref("#/components/schemas/Pet")))))>>))>>))

CreatePet ==
  KV("post", OperationOf("createPet", <<<<Str("pets")>>>>, <<
      KV("requestBody", BodyOf(TwoContents(Ref("#/components/schemas/Pet"), StringSchema))),
      KV("responses", Obj(<<KV("default", Ref("#/components/responses/PetResponse"))>>))>>))

GetPet ==
  KV("get", OperationOf("getPet", <<>>, <<
      KV("parameters", Arr(<<ParameterOf("expand", "query", Ref("#/components/schemas/Kind")),
                             Ref("#/components/parameters/Limit")>>)),
      KV("requestBody", BodyOf(JsonContent(ObjectOf(<<KV("note", StringSchema)>>)))),
      KV("responses", Obj(<<KV("404", NoContent),
                            KV("200", ResponseOf(TwoContents(StringSchema, IntegerSchema)))>>))>>))

DeletePet ==
  KV("delete", OperationOf("deletePet", <<<<Str("admin")>>>>, <<
      KV("responses", Obj(<<KV("default", NoContent)>>))>>))

SharedParameters ==
  KV("parameters", Arr(<<ParameterOf("id", "path", StringSchema),
                         ParameterOf("trace", "header", ArrayOf(StringSchema))>>))

\* the `paths` sections the documents are built with
PathSets == {
  <<KV("/pets", Obj(<<ListPets, CreatePet>>))>>,
  <<KV("/pets/{id}", Obj(<<SharedParameters, GetPet, DeletePet, KV("x-internal", Bool(TRUE))>>))>>,
  <<KV("/pets", Obj(<<ListPets, CreatePet>>)),
    KV("/pets/{id}", Obj(<<GetPet, SharedParameters, DeletePet>>))>>,
  \* a body and a component that synthesize one name; the body is read once
  \* for the method and once for its HTTP binding
  <<KV("/foo", Obj(<<KV("put", OperationOf("foo", <<>>, <<
        KV("requestBody", BodyOf(JsonContent(ObjectOf(<<
            KV("choice", Obj(<<KV("oneOf", Arr(<<ObjectOf(<<KV("x", StringSchema)>>),
                                                 ObjectOf(<<KV("y", StringSchema)>>)>>))>>)),
            KV("mode", EnumSchema),
            KV("b", IntegerSchema)>>)))),
        KV("responses", Obj(<<KV("204", NoContent)>>))>>))>>))>>,
  \* a reference into a component schema
  <<KV("/owners", Obj(<<KV("get", OperationOf("getOwner", <<>>, <<
        KV("responses", Obj(<<KV("200", ResponseOf(JsonContent(
            Ref("#/components/schemas/Pet/properties/owner"))))>>))>>))>>))>>,
  \* a body whose schema is a reference to a value that is no object
  <<KV("/notes", Obj(<<KV("post", OperationOf("addNote", <<>>, <<
        KV("requestBody", BodyOf(JsonContent(Ref("#/info/title")))),
        KV("responses", Obj(<<KV("201", NoContent)>>))>>))>>))>>,
  \* an empty tag list
  <<KV("/logs", Obj(<<KV("get", OperationOf("getLogs", <<<<>>>>, <<
        KV("responses", Obj(<<KV("200", ResponseOf(JsonContent(StringSchema)))>>))>>))>>))>>,
  \* a parameter of the array component
  <<KV("/herds", Obj(<<KV("get", OperationOf("getHerd", <<<<Str("")>>>>, <<
        KV("parameters", Arr(<<ParameterOf("pets", "query", Ref("#/components/schemas/Pets"))>>)),
        KV("responses", Obj(<<KV("200", ResponseOf(JsonContent(
            Ref("#/components/schemas/Pets"))))>>))>>))>>))>>,
  \* an array schema without items, a schema of no known type
  <<KV("/tags", Obj(<<KV("get", OperationOf("getTags", <<>>, <<
        KV("parameters", Arr(<<ParameterOf("names", "query", ArrayNoItems)>>)),
        KV("responses", Obj(<<KV("200", NoContent)>>))>>))>>))>>,
  <<KV("/nulls", Obj(<<KV("get", OperationOf("getNull", <<>>, <<
        KV("requestBody", BodyOf(JsonContent(NullSchema))),
        KV("responses", Obj(<<KV("200", NoContent)>>))>>))>>))>>
}

\* a parameter with more properties than name, in and schema
ParameterWith(name, in, schema, rest) ==
  Obj(<<KV("name", Str(name)), KV("in", Str(in)), KV("schema", schema)>> \o rest)

Styled(style) == <<KV("style", Str(style))>>
Exploded(style) == <<KV("style", Str(style)), KV("explode", Bool(TRUE))>>

\* cookie parameters and array parameters of every style
ItemPaths ==
  <<KV("/items", Obj(<<
      KV("parameters", Arr(<<ParameterOf("token", "cookie", StringSchema)>>)),
      KV("get", OperationOf("listItems", <<>>, <<
        KV("parameters", Arr(<<
            ParameterWith("i", "query", Ref("#/components/schemas/Pets"), Exploded("form")),
            ParameterOf("session", "cookie", StringSchema),
            ParameterWith("a", "query", ArrayOf(StringSchema), Exploded("form")),
            ParameterWith("b", "query", ArrayOf(StringSchema), Styled("form")),
            ParameterWith("c", "header", ArrayOf(StringSchema), Styled("simple"))>>)),
        KV("responses", Obj(<<KV("200", NoContent)>>))>>)),
      KV("put", OperationOf("setItems", <<>>, <<
        KV("parameters", Arr(<<
            ParameterWith("d", "query", ArrayOf(StringSchema), Styled("spaceDelimited")),
            ParameterWith("e", "query", ArrayOf(StringSchema), Styled("pipeDelimited")),
            ParameterWith("f", "path", ArrayOf(StringSchema), Styled("matrix")),
            ParameterWith("g", "path", ArrayOf(StringSchema), Styled("label")),
            ParameterOf("h", "query", ArrayOf(IntegerSchema))>>)),
        KV("responses", Obj(<<KV("200", NoContent)>>))>>))>>))>>

\* two path segments that differ only by their plural form
PluralPaths ==
  <<KV("/pet", Obj(<<KV("get", OperationOf("getOne", <<>>, <<
        KV("responses", Obj(<<KV("200", NoContent)>>))>>))>>)),
    KV("/pets", Obj(<<KV("get", OperationOf("getAll", <<>>, <<
        KV("responses", Obj(<<KV("200", NoContent)>>))>>))>>))>>

\* an operation without operationId
UnnamedPaths ==
  <<KV("/notes", Obj(<<KV("get", Obj(<<KV("responses", Obj(<<KV("204", NoContent)>>))>>))>>))>>

\* a path item with keys that are no verbs
AnnotatedPaths ==
  <<KV("/logs", Obj(<<KV("summary", Str("Logs")),
                      KV("get", OperationOf("getLogs", <<>>, <<
                          KV("responses", Obj(<<KV("204", NoContent)>>))>>))>>))>>

\* the responses that decide the success code, one operation for each verb
Described == ResponseOf(JsonContent(StringSchema))
CodePaths ==
  <<KV("/codes", Obj(<<
      KV("get", OperationOf("readCode", <<>>, <<
        KV("responses", Obj(<<KV("404", NoContent), KV("default", Described)>>))>>)),
      KV("post", OperationOf("addCode", <<>>, <<
        KV("responses", Obj(<<KV("default", Described)>>))>>)),
      KV("delete", OperationOf("dropCode", <<>>, <<
        KV("responses", Obj(<<KV("default", Described)>>))>>)),
      KV("options", OperationOf("askCode", <<>>, <<
        KV("responses", Obj(<<KV("default", Described)>>))>>)),
      KV("put", OperationOf("setCode", <<>>, <<
        KV("responses", Obj(<<KV("default", NoContent)>>))>>)),
      KV("patch", OperationOf("fixCode", <<>>, <<
        KV("responses", Obj(<<KV("2XX", Described), KV("default", Described)>>))>>)),
      KV("head", OperationOf("peekCode", <<>>, <<
        KV("responses", Obj(<<KV("404", NoContent)>>))>>)),
      KV("trace", OperationOf("traceCode", <<>>, <<
        KV("responses", Obj(<<KV("404", NoContent), KV("204", NoContent),
                              KV("200", Described)>>))>>))>>))>>

\* operations with and without a security list of their own
Requirement(names) == Obj([i \in DOMAIN names |-> KV(names[i], Arr(<<>>))])
SecurePaths ==
  <<KV("/secure", Obj(<<
      KV("get", OperationOf("readSecret", <<>>, <<
        KV("responses", Obj(<<KV("200", NoContent)>>))>>)),
      KV("post", OperationOf("addSecret", <<>>, <<
        KV("security", Arr(<<>>)),
        KV("responses", Obj(<<KV("200", NoContent)>>))>>)),
      KV("put", OperationOf("setSecret", <<>>, <<
        KV("security", Arr(<<Requirement(<<"basic">>),
                             Requirement(<<"oauth", "oidc", "key", "ghost">>)>>)),
        KV("responses", Obj(<<KV("200", NoContent)>>))>>))>>))>>

\* a document-level security list and the schemes of every type
SecuredComponents ==
  <<KV("security", Arr(<<Requirement(<<"key", "oidc">>)>>)),
    KV("components", Obj(<<KV("securitySchemes", Obj(<<
      KV("basic", Obj(<<KV("type", Str("http")), KV("scheme", Str("basic"))>>)),
      KV("key", Obj(<<KV("type", Str("apiKey")), KV("name", Str("X-Key")),
                      KV("in", Str("header"))>>)),
      KV("oauth", Obj(<<KV("type", Str("oauth2")),
                        KV("flows", Obj(<<KV("implicit", Obj(<<
                            KV("authorizationUrl", Str("https://auth")),
                            KV("scopes", Obj(<<KV("read", Str("Read"))>>))>>))>>))>>)),
      KV("oidc", Obj(<<KV("type", Str("openIdConnect")),
                       KV("openIdConnectUrl", Str("https://oidc"))>>))>>))>>))>>

\* allOf branches: a redeclared property, required lists, a branch with an
\* allOf of its own, an allOf beside properties
MergedComponents ==
  <<KV("components", Obj(<<KV("schemas", Obj(<<
      KV("Base", Obj(<<KV("type", Str("object")),
                       KV("required", Arr(<<Str("id")>>)),
                       KV("properties", Obj(<<KV("id", IntegerSchema),
                                              KV("name", StringSchema)>>))>>)),
      KV("Mid", Obj(<<KV("required", Arr(<<Str("name")>>)),
                      KV("allOf", Arr(<<
                          Ref("#/components/schemas/Base"),
                          Obj(<<KV("type", Str("object")),
                                KV("required", Arr(<<Str("tag")>>)),
                                KV("properties", Obj(<<KV("name", IntegerSchema),
                                                       KV("tag", StringSchema)>>))>>)>>))>>)),
      KV("Top", Obj(<<KV("allOf", Arr(<<
                          Ref("#/components/schemas/Mid"),
                          ObjectOf(<<KV("extra", StringSchema)>>)>>))>>)),
      KV("Noted", Obj(<<KV("allOf", Arr(<<Ref("#/components/schemas/Base")>>)),
                        KV("properties", Obj(<<KV("note", StringSchema)>>))>>))>>))>>))>>

\* the documents built from one `paths` section and one set of components
PairedSets == {
  <<ItemPaths, PlainComponents>>,
  <<PluralPaths, <<>> >>,
  <<PluralPaths, MergedComponents>>,
  <<UnnamedPaths, <<>> >>,
  <<AnnotatedPaths, <<>> >>,
  <<CodePaths, <<>> >>,
  <<SecurePaths, <<>> >>,
  <<SecurePaths, SecuredComponents>>
}

Formats == {"json", "yaml"}

Document(fmt, paths, components) ==
  [fmt |-> fmt,
   node |-> Obj(<<KV("openapi", Str("3.0.1")),
                  KV("info", Obj(<<KV("title", Str("pet store")), KV("version", Str("2.1.0"))>>)),
                  KV("x-owner", Str("team")),
                  KV("paths", Obj(paths))>> \o components)]

Documents ==
  {Document(fmt, paths, components) :
     fmt \in Formats, paths \in PathSets, components \in ComponentSets}
  \cup {Document(fmt, pair[1], pair[2]) : fmt \in Formats, pair \in PairedSets}

\* a number schema with both bounds and the given exclusivity flags
NumberBetween(flags) ==
  Obj(<<KV("type", Str("number")), KV("minimum", Num(1)), KV("maximum", Num(9))>> \o flags)

\* schemas of every `type`, of none, of unknown ones, references, enums,
\* bounded numbers and arrays
TypedComponents ==
  <<KV("components", Obj(<<KV("schemas", Obj(<<
      KV("None", Obj(<<KV("properties", Obj(<<KV("id", IntegerSchema)>>))>>)),
      KV("Str", StringSchema),
      KV("Int", IntegerSchema),
      KV("Num", Obj(<<KV("type", Str("number"))>>)),
      KV("Bool", Obj(<<KV("type", Str("boolean"))>>)),
      KV("Arr", ArrayOf(StringSchema)),
      KV("Obj", ObjectOf(<<KV("id", IntegerSchema)>>)),
      KV("Null", NullSchema),
      KV("Code", Obj(<<KV("type", Num(3))>>)),
      KV("Any", Obj(<<KV("type", Arr(<<Str("string"), Str("null")>>))>>)),
      KV("Alias", Ref("#/components/schemas/Str")),
      KV("Mixed", Obj(<<KV("$ref", Str("#/components/schemas/Int")), KV("type", Str("string"))>>)),
      KV("Kind", EnumSchema),
      KV("Twice", Obj(<<KV("type", Str("string")),
                        KV("enum", Arr(<<Str("on"), Str("off"), Str("on")>>))>>)),
      KV("Choice", Obj(<<KV("oneOf", Arr(<<Ref("#/components/schemas/Obj"),
                                           ObjectOf(<<KV("x", StringSchema)>>)>>))>>)),
      KV("Bounded", NumberBetween(<<>>)),
      KV("Above", NumberBetween(<<KV("exclusiveMinimum", Bool(TRUE))>>)),
      KV("Below", NumberBetween(<<KV("exclusiveMaximum", Bool(TRUE))>>)),
      KV("Between", NumberBetween(<<KV("exclusiveMinimum", Bool(FALSE)),
                                    KV("exclusiveMaximum", Bool(TRUE))>>)),
      KV("Under", Obj(<<KV("type", Str("integer")), KV("maximum", Num(9)),
                        KV("exclusiveMinimum", Bool(TRUE)), KV("exclusiveMaximum", Bool(FALSE))>>)),
      KV("Over", Obj(<<KV("type", Str("integer")), KV("minimum", Num(1)),
                       KV("exclusiveMaximum", Bool(TRUE))>>)),
      KV("Short", Obj(<<KV("type", Str("array")), KV("items", BoundedString),
                        KV("maxItems", Num(3))>>)),
      KV("Codes", Obj(<<KV("type", Str("array")), KV("minItems", Num(1)),
                        KV("items", Ref("#/components/schemas/Above"))>>)),
      KV("Loose", Obj(<<KV("type", Str("array")), KV("maxItems", Num(3)),
                        KV("items", Ref("#/info/title"))>>))>>)),
    KV("parameters", Obj(<<KV("Kind", ParameterOf("kind", "query", EnumSchema))>>))>>))>>

LookupDocuments == {Document(fmt, <<>>, TypedComponents) : fmt \in Formats}

\* the pointers handed to resolveRef
Pointers ==
  {ComponentSchemasPrefix \o name :
     name \in {"None", "Str", "Int", "Num", "Bool", "Arr", "Obj", "Null", "Code", "Any", "Alias",
               "Mixed", "Kind", "Twice", "Choice", "Bounded",
               "Above", "Below", "Between", "Under", "Over", "Short", "Codes", "Loose", "Gone", "Any/type", "Any/type/0", "Obj/properties/id", "Str/type"}}
  \cup {"#", "#/", "#/openapi", "#/info", "#/info/title", "#/info/title/x", "#/paths", "#/components",
        "#/components/schemas", "#/components/parameters/Kind/schema", "#/x-owner", "#/info/#", "#/info/#/paths", "#/gone/#",
        "", "info", "components/schemas/Str", "/info"}

-----------------------------------------------------------------------------
(* The parser instance: new OAS3Parser(source, sourcePath), then parse().  *)

Init ==
  /\ doc \in Documents
  /\ pc = "idle"
  /\ enums = <<>>
  /\ anonymousTypes = <<>>
  /\ unions = <<>>
  /\ violations = <<>>
  /\ interfaces = <<>>
  /\ types = <<>>
  /\ service = NoService
  /\ error = ""
  /\ calls = 0
  /\ ptr = ""
  /\ found = NoLookup

\* parse(), to the end of `const interfaces = this.parseInterfaces()`
ParseInterfaces ==
  /\ pc \in {"idle", "returned", "thrown"}
  /\ calls < MaxCalls
  /\ LET r == Call("parseInterfaces", <<Root(doc), Fields(<<>>, <<>>, unions, violations)>>) IN
       /\ enums' = r.st.enums
       /\ anonymousTypes' = r.st.anonymousTypes
       /\ unions' = r.st.unions
       /\ violations' = r.st.violations
       /\ error' = r.st.err
       /\ interfaces' = r.v
       /\ pc' = IF Failed(r.st) THEN "thrown" ELSE "definitions"
  /\ types' = <<>>
  /\ service' = NoService
  /\ calls' = calls + 1
  /\ UNCHANGED <<doc, ptr, found>>

\* parse(): `const types = this.parseDefinitions()`
ParseDefinitions ==
  /\ pc = "definitions"
  /\ LET r == Call("parseDefinitions", <<Root(doc), Fields(enums, anonymousTypes, unions, violations)>>) IN
       /\ enums' = r.st.enums
       /\ anonymousTypes' = r.st.anonymousTypes
       /\ unions' = r.st.unions
       /\ violations' = r.st.violations
       /\ error' = r.st.err
       /\ types' = r.v
       /\ pc' = IF Failed(r.st) THEN "thrown" ELSE "assemble"
  /\ UNCHANGED <<doc, interfaces, service, calls, ptr, found>>

\* parse(): the three reductions by name and the returned object
ReturnService ==
  /\ pc = "assemble"
  /\ service' = Service(Root(doc), interfaces, types, enums, unions, anonymousTypes)
  /\ pc' = "returned"
  /\ UNCHANGED <<doc, enums, anonymousTypes, unions, violations, interfaces, types, error, calls,
                 ptr, found>>

Next == ParseInterfaces \/ ParseDefinitions \/ ReturnService

Spec == Init /\ [][Next]_vars

-----------------------------------------------------------------------------
(* The pure functions of the reference resolver and the schema classifier, *)
(* applied to a pointer into a document.                                   *)

LookupInit ==
  /\ doc \in LookupDocuments
  /\ ptr \in Pointers
  /\ found = NoLookup
  /\ pc = "idle"
  /\ enums = <<>>
  /\ anonymousTypes = <<>>
  /\ unions = <<>>
  /\ violations = <<>>
  /\ interfaces = <<>>
  /\ types = <<>>
  /\ service = NoService
  /\ error = ""
  /\ calls = 0

\* resolveRef(root, ref)
ResolveRef ==
  /\ pc = "idle"
  /\ LET node == Call("resolveRef", <<Root(doc), ptr>>) IN
       /\ found' = [found EXCEPT !.target = node]
       /\ error' = IF IsThrow(node) THEN node.at[1] ELSE ""
       /\ pc' = IF IsThrow(node) THEN "unresolved" ELSE "resolved"
  /\ UNCHANGED <<doc, ptr, enums, anonymousTypes, unions, violations, interfaces, types, service,
                 calls>>

\* the node the pointer addresses, classified where it stands
\* (toSchemaOrRef) and as the target of a reference (resolveSchema)
Classify ==
  /\ pc = "resolved"
  /\ found' = [found EXCEPT
                 !.inline = Call("toSchemaOrRef", <<Wrap("AST", found.target.node, found.target.at)>>),
                 !.referred = Call("resolveSchema", <<Root(doc), Wrap("Ref", Ref(ptr), <<>>)>>)]
  /\ pc' = "classified"
  /\ UNCHANGED <<doc, ptr, enums, anonymousTypes, unions, violations, interfaces, types, service,
                 error, calls>>

\* the names parseType is called with
LocalNames == {"status", "tags"}
ParentNames == {"", "widget"}

\* parseType(schemaOrRef, localName, parentName) on a reference with the pointer
SynthesizeReference ==
  /\ pc = "classified"
  /\ \E localName \in LocalNames, parentName \in ParentNames :
       LET r == Call("parseType", <<Root(doc), Wrap("Ref", Ref(ptr), <<>>), localName, parentName,
                                   Fields(enums, anonymousTypes, unions, violations), 1>>) IN
         /\ found' = [found EXCEPT !.localName = localName, !.parentName = parentName,
                                   !.descriptor = r.v]
         /\ enums' = r.st.enums
         /\ anonymousTypes' = r.st.anonymousTypes
         /\ unions' = r.st.unions
         /\ violations' = r.st.violations
         /\ error' = r.st.err
  /\ pc' = "referenced"
  /\ UNCHANGED <<doc, ptr, interfaces, types, service, calls>>

\* parseType(schemaOrRef, localName, parentName) on the schema the pointer
\* addresses, met inline
SynthesizeInline ==
  /\ pc = "classified"
  /\ IsDef(found.inline)
  /\ \E localName \in LocalNames, parentName \in ParentNames :
       LET r == Call("parseType", <<Root(doc), found.inline, localName, parentName,
                                   Fields(enums, anonymousTypes, unions, violations), 1>>) IN
         /\ found' = [found EXCEPT !.localName = localName, !.parentName = parentName,
                                   !.descriptor = r.v]
         /\ enums' = r.st.enums
         /\ anonymousTypes' = r.st.anonymousTypes
         /\ unions' = r.st.unions
         /\ violations' = r.st.violations
         /\ error' = r.st.err
  /\ pc' = "synthesized"
  /\ UNCHANGED <<doc, ptr, interfaces, types, service, calls>>

\* parseRules(def, required) on the schema the pointer addresses
ParseRules ==
  /\ pc = "classified"
  /\ IsDef(found.inline)
  /\ ~isRefNode(found.inline)
  /\ \E required \in BOOLEAN :
       LET r == Call("parseRules", <<Root(doc), found.inline, required>>) IN
         /\ found' = [found EXCEPT !.required = required, !.rules = r.rules]
         /\ error' = r.err
  /\ pc' = "ruled"
  /\ UNCHANGED <<doc, ptr, enums, anonymousTypes, unions, violations, interfaces, types, service,
                 calls>>

LookupNext ==
  ResolveRef \/ Classify \/ SynthesizeReference \/ SynthesizeInline \/ ParseRules

LookupSpec == LookupInit /\ [][LookupNext]_vars

-----------------------------------------------------------------------------
(* The entry point and views of the returned service used by the          *)
(* properties below.                                                       *)

\* parser(input, sourcePath): a new instance, one parse(), its violations
parser(d) ==
  LET i == Call("parseInterfaces", <<Root(d), Fields(<<>>, <<>>, <<>>, <<>>)>>)
      t == Call("parseDefinitions", <<Root(d), i.st>>)
  IN IF Failed(i.st) THEN [service |-> NoService, violations |-> i.st.violations, error |-> i.st.err]
     ELSE IF Failed(t.st) THEN [service |-> NoService, violations |-> t.st.violations, error |-> t.st.err]
     ELSE [service |-> Service(Root(d), i.v, t.v, t.st.enums, t.st.unions, t.st.anonymousTypes),
           violations |-> t.st.violations, error |-> ""]

Returned == pc = "returned"

Names(items) == {items[i].name.value : i \in DOMAIN items}

AllMethods(s) == Flatten([i \in DOMAIN s.interfaces |-> s.interfaces[i].methods])
AllParameters(s) == Flatten([i \in DOMAIN AllMethods(s) |-> AllMethods(s)[i].parameters])
AllReturnTypes(s) == Flatten([i \in DOMAIN AllMethods(s) |-> AllMethods(s)[i].returnType])
AllProperties(s) == Flatten([i \in DOMAIN s.types |-> s.types[i].properties])

\* the names of the types that parameters, return types and properties mark
\* non-primitive
CustomTypeNames(s) ==
  {AllParameters(s)[i].typeName.value :
     i \in {j \in DOMAIN AllParameters(s) : ~AllParameters(s)[j].isPrimitive}}
  \cup {AllReturnTypes(s)[i].typeName.value :
     i \in {j \in DOMAIN AllReturnTypes(s) : ~AllReturnTypes(s)[j].isPrimitive}}
  \cup {AllProperties(s)[i].typeName.value :
     i \in {j \in DOMAIN AllProperties(s) : ~AllProperties(s)[j].isPrimitive}}

-----------------------------------------------------------------------------
(* C1: referential closure.  In the service parse() returns, every type    *)
(* name that a method parameter, a method return type or a type property   *)
(* marks non-primitive is the name of a Type, an Enum or a Union of the    *)
(* service.                                                                *)

C1_ReferentialClosure ==
  Returned =>
    CustomTypeNames(service) \subseteq
      (Names(service.types) \cup Names(service.enums) \cup Names(service.unions))

-----------------------------------------------------------------------------
(* C2: unique names.  In the service parse() returns no two Types, no two  *)
(* Enums and no two Unions have the same name, however many schemas        *)
(* synthesized to that name.                                               *)

UniqueNames(items) ==
  \A i, j \in DOMAIN items : items[i].name.value = items[j].name.value => i = j

C2_UniqueNames ==
  Returned => /\ UniqueNames(service.types)
              /\ UniqueNames(service.enums)
              /\ UniqueNames(service.unions)

\* a parse returned in which several Types, several Enums and several Unions
\* were synthesized under one name
C2_Witness ==
  /\ Returned
  /\ ~UniqueNames(types \o anonymousTypes)
  /\ ~UniqueNames(enums)
  /\ ~UniqueNames(unions)

-----------------------------------------------------------------------------
(* C3: serialization independence.  The JSON text and the YAML text of one *)
(* document are read by the text parser into the same tree with other      *)
(* ranges.  Parsing either gives the same outcome, and the two services    *)
(* are identical once every source range (`loc`) is discarded.             *)

OtherSerialization(d) == [d EXCEPT !.fmt = IF @ = "json" THEN "yaml" ELSE "json"]

\* an entity with its own range discarded
Unlocated(x) == [x EXCEPT !.loc = NoLoc]
UnlocatedAll(xs) == [i \in DOMAIN xs |-> Unlocated(xs[i])]

MetaWithoutLoc(meta) ==
  [i \in DOMAIN meta |-> [key |-> Unlocated(meta[i].key), value |-> Unlocated(meta[i].value)]]

RuleWithoutLoc(r) ==
  IF r.kind = "ValidationRule"
  THEN [r EXCEPT !.loc = NoLoc, !.str = Unlocated(@), !.num = Unlocated(@), !.values = UnlocatedAll(@)]
  ELSE [r EXCEPT !.loc = NoLoc, !.num = Unlocated(@)]
RulesWithoutLoc(rs) == [i \in DOMAIN rs |-> RuleWithoutLoc(rs[i])]

\* a parameter, a property, a return type or a union member
TypedWithoutLoc(x) ==
  LET y == [x EXCEPT !.loc = NoLoc, !.typeName = Unlocated(@), !.rules = RulesWithoutLoc(@),
                     !.default = UnlocatedAll(@)]
      z == IF "constant" \in DOMAIN x THEN [y EXCEPT !.constant = UnlocatedAll(@)] ELSE y
  IN IF "name" \in DOMAIN x
     THEN [z EXCEPT !.name = Unlocated(@), !.description = UnlocatedAll(@),
                    !.meta = MetaWithoutLoc(@)]
     ELSE z
AllTypedWithoutLoc(xs) == [i \in DOMAIN xs |-> TypedWithoutLoc(xs[i])]

FlowWithoutLoc(f) ==
  [f EXCEPT !.loc = NoLoc, !.type = Unlocated(@), !.authorizationUrl = UnlocatedAll(@),
            !.refreshUrl = UnlocatedAll(@), !.tokenUrl = UnlocatedAll(@),
            !.scopes = [i \in DOMAIN @ |->
                          [@[i] EXCEPT !.loc = NoLoc, !.name = Unlocated(@),
                                       !.description = UnlocatedAll(@)]]]

SchemeWithoutLoc(x) ==
  [x EXCEPT !.loc = NoLoc, !.type = Unlocated(@), !.name = Unlocated(@),
            !.description = UnlocatedAll(@), !.parameter = UnlocatedAll(@),
            !.in = UnlocatedAll(@), !.flows = [i \in DOMAIN @ |-> FlowWithoutLoc(@[i])],
            !.meta = MetaWithoutLoc(@)]

MethodWithoutLoc(m) ==
  [m EXCEPT !.loc = NoLoc, !.name = Unlocated(@),
            !.security = [i \in DOMAIN @ |-> [j \in DOMAIN @[i] |-> SchemeWithoutLoc(@[i][j])]],
            !.parameters = AllTypedWithoutLoc(@),
            !.description = UnlocatedAll(@),
            !.returnType = AllTypedWithoutLoc(@),
            !.meta = MetaWithoutLoc(@)]

HttpMethodWithoutLoc(m) ==
  [m EXCEPT !.loc = NoLoc, !.name = Unlocated(@), !.verb = Unlocated(@),
            !.successCode = Unlocated(@),
            !.parameters = [i \in DOMAIN @ |->
                              [@[i] EXCEPT !.loc = NoLoc, !.name = Unlocated(@),
                                           !.in = Unlocated(@), !.array = UnlocatedAll(@)]]]

HttpPathWithoutLoc(h) ==
  [h EXCEPT !.loc = NoLoc, !.path = Unlocated(@),
            !.methods = [i \in DOMAIN @ |-> HttpMethodWithoutLoc(@[i])]]

InterfaceWithoutLoc(x) ==
  [x EXCEPT !.name = Unlocated(@),
            !.methods = [i \in DOMAIN @ |-> MethodWithoutLoc(@[i])],
            !.protocols = [http |-> [i \in DOMAIN @.http |-> HttpPathWithoutLoc(@.http[i])]]]

TypeWithoutLoc(t) ==
  [t EXCEPT !.loc = NoLoc, !.name = Unlocated(@), !.properties = AllTypedWithoutLoc(@),
            !.description = UnlocatedAll(@), !.rules = RulesWithoutLoc(@),
            !.meta = MetaWithoutLoc(@)]

EnumWithoutLoc(e) ==
  [e EXCEPT !.loc = NoLoc, !.name = Unlocated(@),
            !.values = [i \in DOMAIN @ |-> [@[i] EXCEPT !.loc = NoLoc, !.content = Unlocated(@)]]]

UnionWithoutLoc(u) ==
  [u EXCEPT !.loc = NoLoc, !.name = Unlocated(@), !.members = AllTypedWithoutLoc(@),
            !.meta = MetaWithoutLoc(@)]

\* the service with every range discarded
WithoutLoc(s) ==
  [s EXCEPT !.loc = NoLoc, !.title = Unlocated(@), !.majorVersion = Unlocated(@),
            !.interfaces = [i \in DOMAIN @ |-> InterfaceWithoutLoc(@[i])],
            !.types = [i \in DOMAIN @ |-> TypeWithoutLoc(@[i])],
            !.enums = [i \in DOMAIN @ |-> EnumWithoutLoc(@[i])],
            !.unions = [i \in DOMAIN @ |-> UnionWithoutLoc(@[i])],
            !.meta = MetaWithoutLoc(@)]

C3_SerializationIndependent ==
  (calls = 1 /\ pc \in {"returned", "thrown"}) =>
    /\ error = parser(OtherSerialization(doc)).error
    /\ Returned => WithoutLoc(service) = WithoutLoc(parser(OtherSerialization(doc)).service)

\* a service returned for a document with types, enums, rules and HTTP
\* bindings, whose ranges are not those of the other serialization
C3_Witness ==
  /\ Returned /\ calls = 1
  /\ service # parser(OtherSerialization(doc)).service
  /\ Len(service.types) > 0 /\ Len(service.enums) > 0 /\ Len(AllParameters(service)) > 0

-----------------------------------------------------------------------------
(* C4: fatal structural conditions abort the parse.  When the request body *)
(* or a parameter of an operation holds a reference that cannot be         *)
(* resolved, a reference whose target is no object, an array schema        *)
(* without an item schema or a schema of no known shape, parse() throws    *)
(* and returns no service.                                                 *)

\* the operations of the document that are objects
Operations(d) ==
  SelectSeq(allOperations(Root(d)),
            LAMBDA op : op.operation.nodeType = "Operation" /\ isObject(op.operation.node))

\* a reference that does not resolve, or resolves to a value that is no object
FatalReference(root, n) ==
  /\ isRef(n)
  /\ LET target == resolveRef(root, Child(n, "$ref").str) IN
       IsThrow(target) \/ ~isObject(target.node)

\* a schema of no known shape, or an array schema without items
FatalShape(n) ==
  \/ ~isObject(n)
  \/ Child(n, "type") # Undefined /\ SchemaVariant(Child(n, "type")) = ""
  \/ SchemaVariant(Child(n, "type")) = "ArraySchema" /\ Child(n, "items") = Undefined

FatalSchema(root, n) ==
  \/ FatalReference(root, n)
  \/ FatalShape(IF isRef(n) THEN resolveRef(root, Child(n, "$ref").str).node ELSE n)

\* the schema of the first content type of the operation's request body
BodySchemas(root, operation) ==
  LET bodyOrRef == getChildOrRef(operation, "requestBody", "RequestBody")
      body == resolve(root, bodyOrRef, "RequestBody")
      content == getChild(body, "content", "MediaTypeIndex")
      media == getChild(content, keys(content)[1], "MediaType")
  IN IF ~IsDef(bodyOrRef) \/ IsThrow(body) \/ Len(keys(content)) = 0 \/ ~hasKey(media, "schema")
     THEN <<>>
     ELSE <<Child(media.node, "schema")>>

\* the schemas of the operation's own parameters
ParameterSchemas(root, operation) ==
  LET ps == SelectSeq(parametersOf(operation),
                      LAMBDA q : ~FatalReference(root, q.node)
                                 /\ hasKey(resolveParam(root, q), "schema"))
  IN [i \in DOMAIN ps |-> Child(resolveParam(root, ps[i]).node, "schema")]

FatalInOperation(root, operation) ==
  \/ FatalReference(root, Child(operation.node, "requestBody"))
  \/ \E i \in DOMAIN parametersOf(operation) : FatalReference(root, parametersOf(operation)[i].node)
  \/ \E i \in DOMAIN BodySchemas(root, operation) : FatalSchema(root, BodySchemas(root, operation)[i])
  \/ \E i \in DOMAIN ParameterSchemas(root, operation) :
       FatalSchema(root, ParameterSchemas(root, operation)[i])

C4_FatalConditionsAbort ==
  Returned => \A i \in DOMAIN Operations(doc) :
                ~FatalInOperation(Root(doc), Operations(doc)[i].operation)

-----------------------------------------------------------------------------
(* C5: several content types.  When a request body or a response declares *)
(* more than one content type, parse() ends as it does on the document     *)
(* with only the first content type of each (it returns the same service,  *)
(* or throws the same error), and for each such body or response of a      *)
(* parsed operation a warning with code 'openapi-3/unsupported-feature' is *)
(* in the violations list.                                                 *)

\* the tree with every `content` object cut to its first content type
RECURSIVE FirstContentOnly(_)
FirstContentOnly(n) ==
  IF isObject(n)
  THEN Obj([i \in DOMAIN n.children |->
              KV(n.children[i].key,
                 IF n.children[i].key = "content" /\ isObject(n.children[i].value)
                    /\ Len(n.children[i].value.children) > 1
                 THEN Obj(<<KV(n.children[i].value.children[1].key,
                               FirstContentOnly(n.children[i].value.children[1].value))>>)
                 ELSE FirstContentOnly(n.children[i].value))])
  ELSE IF isArray(n) THEN Arr([i \in DOMAIN n.children |-> FirstContentOnly(n.children[i])])
  ELSE n

WithFirstContentOnly(d) == [d EXCEPT !.node = FirstContentOnly(@)]

\* the `content` of the request body and of the primary response of an operation
ContentsOf(root, operation) ==
  LET bodyOrRef == getChildOrRef(operation, "requestBody", "RequestBody")
      body == resolve(root, bodyOrRef, "RequestBody")
      responses == getChild(operation, "responses", "Responses")
      primary == parsePrimaryResponseKey(operation)
      key == IF primary.kind = "number" THEN ToString(primary.num) ELSE primary.kind
      success == getChildOrRef(responses, key, "Response")
      response == resolve(root, success, "Response")
  IN (IF IsDef(bodyOrRef) /\ IsDef(body) THEN <<getChild(body, "content", "MediaTypeIndex")>> ELSE <<>>)
     \o (IF IsDef(success) /\ IsDef(response)
         THEN <<getChild(response, "content", "MediaTypeIndex")>> ELSE <<>>)

\* the bodies and primary responses of the document with several content types
MultipleContents(d) ==
  SelectSeq(Flatten([i \in DOMAIN Operations(d) |-> ContentsOf(Root(d), Operations(d)[i].operation)]),
            LAMBDA content : Len(keys(content)) > 1)

IsMultipleContentWarning(v, content) ==
  /\ v.code = "openapi-3/unsupported-feature"
  /\ v.severity = "warning"
  /\ v.range = range(content)
  /\ StartsWith(v.message, "Multiple content types are not yet supported.")

C5_FirstContentTypeOnly ==
  (calls = 1 /\ pc \in {"returned", "thrown"}) =>
    /\ error = parser(WithFirstContentOnly(doc)).error
    /\ Returned => service = parser(WithFirstContentOnly(doc)).service
    /\ Returned => \A i \in DOMAIN MultipleContents(doc) :
                     \E j \in DOMAIN violations :
                       IsMultipleContentWarning(violations[j], MultipleContents(doc)[i])

\* a service returned for a document with a request body and a response that
\* each declare two content types
C5_Witness ==
  /\ Returned /\ calls = 1
  /\ \E i, j \in DOMAIN MultipleContents(doc) :
       /\ MultipleContents(doc)[i].at[Len(MultipleContents(doc)[i].at) - 1] = "requestBody"
       /\ MultipleContents(doc)[j].at[Len(MultipleContents(doc)[j].at) - 1] # "requestBody"

-----------------------------------------------------------------------------
(* C6: source ranges.  Every entity and every scalar value of the service  *)
(* parse() returns carries a source range: interfaces' names, methods,     *)
(* parameters and their names and type names, return types, success       *)
(* codes, HTTP bindings, types, enums, unions and rules.                   *)

Located(x) == x.loc # NoLoc
AllLocated(xs) == \A i \in DOMAIN xs : Located(xs[i])

TypedLocated(x) ==
  /\ Located(x) /\ Located(x.typeName) /\ AllLocated(x.rules)
  /\ "name" \in DOMAIN x => Located(x.name)

AllHttpMethods(s) ==
  Flatten([i \in DOMAIN s.interfaces |->
    Flatten([j \in DOMAIN s.interfaces[i].protocols.http |->
               s.interfaces[i].protocols.http[j].methods])])

C6_EveryValueLocated ==
  Returned =>
    /\ \A i \in DOMAIN service.interfaces : Located(service.interfaces[i].name)
    /\ \A i \in DOMAIN AllMethods(service) :
         Located(AllMethods(service)[i]) /\ Located(AllMethods(service)[i].name)
    /\ \A i \in DOMAIN AllParameters(service) : TypedLocated(AllParameters(service)[i])
    /\ \A i \in DOMAIN AllReturnTypes(service) : TypedLocated(AllReturnTypes(service)[i])
    /\ \A i \in DOMAIN AllProperties(service) : TypedLocated(AllProperties(service)[i])
    /\ \A i \in DOMAIN AllHttpMethods(service) :
         /\ Located(AllHttpMethods(service)[i]) /\ Located(AllHttpMethods(service)[i].name)
         /\ Located(AllHttpMethods(service)[i].successCode)
         /\ \A j \in DOMAIN AllHttpMethods(service)[i].parameters :
              /\ Located(AllHttpMethods(service)[i].parameters[j])
              /\ Located(AllHttpMethods(service)[i].parameters[j].in)
    /\ \A i \in DOMAIN service.types : Located(service.types[i]) /\ Located(service.types[i].name)
    /\ \A i \in DOMAIN service.enums : Located(service.enums[i]) /\ Located(service.enums[i].name)
    /\ \A i \in DOMAIN service.unions : Located(service.unions[i]) /\ Located(service.unions[i].name)

-----------------------------------------------------------------------------
(* C7: name collisions.  The claim as written: of two entries of one kind  *)
(* synthesized under one name, the service holds the one synthesized last; *)
(* in particular a Type built from a component schema, which is built      *)
(* after the interfaces were parsed, replaces an anonymous Type of the     *)
(* same name that was registered while the interfaces were parsed.         *)

\* the anonymous types registered while the interfaces are parsed
DuringInterfaces(d) ==
  Call("parseInterfaces", <<Root(d), Fields(<<>>, <<>>, <<>>, <<>>)>>).st.anonymousTypes

\* the anonymous types registered while the component schemas are parsed
DuringDefinitions(d) ==
  SubSeq(anonymousTypes, Len(DuringInterfaces(d)) + 1, Len(anonymousTypes))

Entries(items, n) == SelectSeq(items, LAMBDA e : e.name.value = n)

LastNamed(items, n) == Entries(items, n)[Len(Entries(items, n))]

C7_LastSynthesizedWins ==
  Returned =>
    /\ \A i \in DOMAIN types :
         (/\ types[i].name.value \in Names(DuringInterfaces(doc))
          /\ types[i].name.value \notin Names(DuringDefinitions(doc)))
           => Entries(service.types, types[i].name.value) = <<types[i]>>
    /\ \A n \in Names(enums) : Entries(service.enums, n) = <<LastNamed(enums, n)>>
    /\ \A n \in Names(unions) : Entries(service.unions, n) = <<LastNamed(unions, n)>>

(* C7, amended: the service holds, for every name, exactly one entry: for  *)
(* Types the last one with that name in the list of the component Types    *)
(* followed by all anonymous Types in the order they were registered (so   *)
(* an anonymous Type replaces a component Type of the same name), for      *)
(* Enums and Unions the one registered last.                               *)
C7_LastListedWins ==
  Returned =>
    /\ Names(service.types) = Names(types \o anonymousTypes)
    /\ \A n \in Names(types \o anonymousTypes) :
         Entries(service.types, n) = <<LastNamed(types \o anonymousTypes, n)>>
    /\ Names(service.enums) = Names(enums)
    /\ \A n \in Names(enums) : Entries(service.enums, n) = <<LastNamed(enums, n)>>
    /\ Names(service.unions) = Names(unions)
    /\ \A n \in Names(unions) : Entries(service.unions, n) = <<LastNamed(unions, n)>>

\* a service whose Type is the anonymous one registered for a body, not the
\* one of the component of the same name, and with an enum and a union that
\* were registered twice with different values
C7_Witness ==
  /\ Returned
  /\ \E i \in DOMAIN types : \E j \in DOMAIN anonymousTypes :
       /\ types[i].name.value = anonymousTypes[j].name.value
       /\ types[i] # anonymousTypes[j]
       /\ Entries(service.types, types[i].name.value) = <<anonymousTypes[j]>>
  /\ \E i, j \in DOMAIN enums : i < j /\ enums[i].name.value = enums[j].name.value /\ enums[i] # enums[j]
  /\ \E i, j \in DOMAIN unions : i < j /\ unions[i].name.value = unions[j].name.value /\ unions[i] # unions[j]

-----------------------------------------------------------------------------
(* C8: bounded recursion.  parse() never exhausts the call stack: the      *)
(* recursion of parseType and parseProperties through references ends on   *)
(* every document, also when a schema reaches itself.                      *)
C8_RecursionBounded ==
  error # "RangeError: Maximum call stack size exceeded"

-----------------------------------------------------------------------------
(* C9: operations and interfaces.  Every operation is given an owning      *)
(* interface without an error: the one of its first declared tag, or of    *)
(* the first segment of its path when it declares no tag or an empty tag   *)
(* list; and every interface of a returned service holds the methods of    *)
(* exactly its operations, in the order of the document.                   *)

DeclaredTags(operation) ==
  IF isArray(Child(operation.node, "tags")) THEN Child(operation.node, "tags").children ELSE <<>>

OwnerOf(op) ==
  IF Len(DeclaredTags(op.operation)) > 0
  THEN DeclaredTags(op.operation)[1].str
  ELSE Split(op.path, "/")[2]

OperationLoc(d, op) ==
  propRange(getChildOrRef(pathsOf(Root(d)), op.path, "PathItem"), op.verb)

OperationsOf(d, name) ==
  SelectSeq(Operations(d), LAMBDA op : singular(OwnerOf(op)) = name)

C9_OperationsBecomeMethods ==
  pc # "idle" =>
    /\ \A i \in DOMAIN Operations(doc) :
         parseInterfaceName(Operations(doc)[i].path, Operations(doc)[i].operation)
           = [v |-> OwnerOf(Operations(doc)[i]), err |-> ""]
    /\ Returned =>
         \A i \in DOMAIN service.interfaces :
           [j \in DOMAIN service.interfaces[i].methods |-> service.interfaces[i].methods[j].loc]
             = [j \in DOMAIN OperationsOf(doc, service.interfaces[i].name.value) |->
                  OperationLoc(doc, OperationsOf(doc, service.interfaces[i].name.value)[j])]

-----------------------------------------------------------------------------
(* C10: parameter order.  The parameters of every Method of a returned     *)
(* service are: the request-body parameter when the operation has a body   *)
(* with a resolvable schema, then the parameters of the path item in       *)
(* document order, then those of the operation in document order.          *)

\* the range of the request body when its first schema resolves
ExpectedBody(root, operation) ==
  LET body == resolve(root, getChildOrRef(operation, "requestBody", "RequestBody"), "RequestBody")
      content == getChild(body, "content", "MediaTypeIndex")
      schema == resolveSchema(root, schemaOf(getChild(content, keys(content)[1], "MediaType")))
  IN IF Len(BodySchemas(root, operation)) = 0 \/ IsThrow(schema) \/ ~IsDef(schema)
     THEN <<>>
     ELSE <<range(body)>>

\* the ranges of the parameters a list of parameters or references stands for
ExpectedParameters(root, ps) ==
  LET rs == SelectSeq([i \in DOMAIN ps |-> resolveParam(root, ps[i])],
                      LAMBDA r : ~IsThrow(r) /\ IsDef(r))
  IN [i \in DOMAIN rs |-> range(rs[i])]

PathItemOf(d, op) ==
  resolve(Root(d), getChildOrRef(pathsOf(Root(d)), op.path, "PathItem"), "PathItem")

C10_ParameterOrder ==
  Returned =>
    \A i \in DOMAIN Operations(doc) :
      \E k \in DOMAIN AllMethods(service) :
        /\ AllMethods(service)[k].loc = OperationLoc(doc, Operations(doc)[i])
        /\ [j \in DOMAIN AllMethods(service)[k].parameters |-> AllMethods(service)[k].parameters[j].loc]
             = ExpectedBody(Root(doc), Operations(doc)[i].operation)
               \o ExpectedParameters(Root(doc), parametersOf(PathItemOf(doc, Operations(doc)[i])))
               \o ExpectedParameters(Root(doc), parametersOf(Operations(doc)[i].operation))

\* a returned service with an operation that has a body, parameters of its
\* own and parameters of its path item
C10_Witness ==
  /\ Returned
  /\ \E i \in DOMAIN Operations(doc) :
       /\ Len(ExpectedBody(Root(doc), Operations(doc)[i].operation)) = 1
       /\ Len(parametersOf(PathItemOf(doc, Operations(doc)[i]))) > 1
       /\ Len(parametersOf(Operations(doc)[i].operation)) > 0

-----------------------------------------------------------------------------
(* C11: parameter order of the HTTP binding.  The parameters of every      *)
(* HttpMethod of a returned service are those of the Method of the same    *)
(* operation in the same order: the body first, then the parameters of the *)
(* path item, then those of the operation (a cookie parameter, which the   *)
(* binding does not list, left aside).                                     *)

\* the parameters a list of parameters or references stands for
ResolvedParameters(root, ps) ==
  SelectSeq([i \in DOMAIN ps |-> resolveParam(root, ps[i])],
            LAMBDA r : ~IsThrow(r) /\ IsDef(r))

\* the parameters declared for an operation, by its path item and by itself
DeclaredParameters(d, op) ==
  ResolvedParameters(Root(d), parametersOf(PathItemOf(d, op)))
    \o ResolvedParameters(Root(d), parametersOf(op.operation))

InCookie(parameter) == strOf(getLiteral(parameter, "in")) = "cookie"

\* the ranges of the cookie parameters of the document
CookieRanges(d) ==
  UNION {{range(DeclaredParameters(d, Operations(d)[i])[j]) :
            j \in {k \in DOMAIN DeclaredParameters(d, Operations(d)[i]) :
                     InCookie(DeclaredParameters(d, Operations(d)[i])[k])}} :
         i \in DOMAIN Operations(d)}

Locs(xs) == [i \in DOMAIN xs |-> xs[i].loc]

C11_HttpParameterOrder ==
  Returned =>
    \A i \in DOMAIN AllHttpMethods(service) : \A k \in DOMAIN AllMethods(service) :
      AllHttpMethods(service)[i].loc = AllMethods(service)[k].loc =>
        Locs(AllHttpMethods(service)[i].parameters)
          = SelectSeq(Locs(AllMethods(service)[k].parameters),
                      LAMBDA loc : loc \notin CookieRanges(doc))

-----------------------------------------------------------------------------
(* C12: cookie parameters.  A parameter located in 'cookie' is in neither  *)
(* the parameter list of the Method nor that of the HttpMethod of a        *)
(* returned service, and a warning is recorded for it.                     *)

\* the cookie parameters declared for the operations of the document
CookieParameters(d) ==
  Flatten([i \in DOMAIN Operations(d) |->
             SelectSeq(DeclaredParameters(d, Operations(d)[i]), InCookie)])

IsCookieWarning(v, parameter) ==
  /\ v.code = "openapi-3/unsupported-feature"
  /\ v.severity = "warning"
  /\ v.range = range(getLiteral(parameter, "in"))
  /\ StartsWith(v.message, "Cookie is not yet supported.")

C12_CookieParametersDropped ==
  Returned =>
    \A c \in DOMAIN CookieParameters(doc) :
      /\ \A i \in DOMAIN AllMethods(service) :
           \A j \in DOMAIN AllMethods(service)[i].parameters :
             AllMethods(service)[i].parameters[j].loc # range(CookieParameters(doc)[c])
      /\ \A i \in DOMAIN AllHttpMethods(service) :
           \A j \in DOMAIN AllHttpMethods(service)[i].parameters :
             AllHttpMethods(service)[i].parameters[j].loc # range(CookieParameters(doc)[c])
      /\ \E j \in DOMAIN violations : IsCookieWarning(violations[j], CookieParameters(doc)[c])

-----------------------------------------------------------------------------
(* C13: the success code of a 'default' response.  The claim as written:   *)
(* for an operation with no numeric 2xx response key and a 'default'       *)
(* response, the success code is 202 for delete, 204 for options and 200   *)
(* for every other verb when the default response declares content, and    *)
(* 204 when it declares none.                                              *)

ResponseKeys(op) ==
  LET responses == Child(op.operation.node, "responses") IN
  IF isObject(responses) THEN [i \in DOMAIN responses.children |-> responses.children[i].key]
  ELSE <<>>

SuccessKeys(op) == SelectSeq(ResponseKeys(op), LAMBDA k : StartsWith(k, "2"))

DeclaresDefault(op) == \E i \in DOMAIN ResponseKeys(op) : ResponseKeys(op)[i] = "default"

\* the default response, behind its reference when it is one
DefaultResponse(d, op) ==
  LET r == Child(Child(op.operation.node, "responses"), "default") IN
  IF isRef(r) THEN resolveRef(Root(d), Child(r, "$ref").str).node ELSE r

DefaultHasContent(d, op) ==
  /\ isObject(DefaultResponse(d, op))
  /\ isObject(Child(DefaultResponse(d, op), "content"))
  /\ Len(Child(DefaultResponse(d, op), "content").children) > 0

\* the operations whose success code the default response decides
DefaultDecides(d) ==
  SelectSeq(Operations(d),
            LAMBDA op : DeclaresDefault(op)
                        /\ \A i \in DOMAIN SuccessKeys(op) : ~IsNumeral(SuccessKeys(op)[i]))

\* the success codes bound to the operation in the returned service
SuccessCodes(d, op) ==
  {AllHttpMethods(service)[i].successCode.value :
     i \in {k \in DOMAIN AllHttpMethods(service) :
              AllHttpMethods(service)[k].loc = OperationLoc(d, op)}}

C13_DefaultCodeByVerb ==
  Returned =>
    \A i \in DOMAIN DefaultDecides(doc) :
      SuccessCodes(doc, DefaultDecides(doc)[i])
        = {IF ~DefaultHasContent(doc, DefaultDecides(doc)[i]) THEN 204
           ELSE CASE DefaultDecides(doc)[i].verb = "delete" -> 202
                  [] DefaultDecides(doc)[i].verb = "options" -> 204
                  [] OTHER -> 200}

(* C13, amended: with content in the default response the success code is *)
(* 202 for delete, 204 for options, 201 for post and 200 for every other   *)
(* verb; without content it is 204.                                        *)
C13_DefaultCodeByVerbAndPost ==
  Returned =>
    \A i \in DOMAIN DefaultDecides(doc) :
      SuccessCodes(doc, DefaultDecides(doc)[i])
        = {IF ~DefaultHasContent(doc, DefaultDecides(doc)[i]) THEN 204
           ELSE CASE DefaultDecides(doc)[i].verb = "delete" -> 202
                  [] DefaultDecides(doc)[i].verb = "options" -> 204
                  [] DefaultDecides(doc)[i].verb = "post" -> 201
                  [] OTHER -> 200}

\* a returned service with default responses with content for delete,
\* options, post and another verb, and one without content
C13_Witness ==
  /\ Returned
  /\ \A verb \in {"delete", "options", "post", "get"} :
       \E i \in DOMAIN DefaultDecides(doc) :
         DefaultDecides(doc)[i].verb = verb /\ DefaultHasContent(doc, DefaultDecides(doc)[i])
  /\ \E i \in DOMAIN DefaultDecides(doc) : ~DefaultHasContent(doc, DefaultDecides(doc)[i])

-----------------------------------------------------------------------------
(* C14: the success code of a 2xx response.  When the first response key   *)
(* that starts with '2', in document order, is a numeral, the success code *)
(* is its value; when the operation has no numeric 2xx key and no          *)
(* 'default' response, the success code is 200.                            *)
C14_FirstSuccessKey ==
  Returned =>
    \A i \in DOMAIN Operations(doc) :
      /\ (Len(SuccessKeys(Operations(doc)[i])) > 0 /\ IsNumeral(SuccessKeys(Operations(doc)[i])[1]))
           => SuccessCodes(doc, Operations(doc)[i])
                = {DigitsValue(SuccessKeys(Operations(doc)[i])[1], 1, 0)}
      /\ (/\ ~DeclaresDefault(Operations(doc)[i])
          /\ \A j \in DOMAIN SuccessKeys(Operations(doc)[i]) :
               ~IsNumeral(SuccessKeys(Operations(doc)[i])[j]))
           => SuccessCodes(doc, Operations(doc)[i]) = {200}

\* a returned service with an operation whose 2xx keys are not in numeric
\* order and one that has neither a 2xx key nor a default response
C14_Witness ==
  /\ Returned
  /\ \E i \in DOMAIN Operations(doc) :
       /\ Len(SuccessKeys(Operations(doc)[i])) > 1
       /\ SuccessCodes(doc, Operations(doc)[i]) = {204}
  /\ \E i \in DOMAIN Operations(doc) :
       /\ Len(SuccessKeys(Operations(doc)[i])) = 0
       /\ ~DeclaresDefault(Operations(doc)[i])
       /\ SuccessCodes(doc, Operations(doc)[i]) = {200}

-----------------------------------------------------------------------------
(* C15: the array style of a parameter.  For every query, header or path   *)
(* parameter whose schema is an array, declared inline or reached through  *)
(* a reference, the HttpParameter of a returned service carries the style: *)
(* multi for form with explode true; csv for form without explode and for  *)
(* simple; ssv for spaceDelimited; pipes for pipeDelimited; csv and a      *)
(* warning for matrix and label; csv when no style is declared.            *)

\* the schema a parameter declares, behind its reference when it is one
ParameterSchema(d, parameter) == resolveSchema(Root(d), schemaOf(parameter))

StylesOfClaim == {"form", "simple", "spaceDelimited", "pipeDelimited", "matrix", "label"}

DeclaredStyle(parameter) ==
  LET style == Child(parameter.node, "style") IN
  IF isLiteral(style) /\ style.lt = "string" THEN style.str ELSE ""

\* the query, header and path parameters of an operation with an array schema
ArrayParameters(d, op) ==
  SelectSeq(DeclaredParameters(d, op),
            LAMBDA p : /\ strOf(getLiteral(p, "in")) \in {"query", "header", "path"}
                       /\ ParameterSchema(d, p).nodeType = "ArraySchema"
                       /\ (hasKey(p, "style") => DeclaredStyle(p) \in StylesOfClaim))

ExpectedStyle(parameter) ==
  CASE DeclaredStyle(parameter) = "form" /\ Child(parameter.node, "explode") = Bool(TRUE) -> "multi"
    [] DeclaredStyle(parameter) = "spaceDelimited" -> "ssv"
    [] DeclaredStyle(parameter) = "pipeDelimited" -> "pipes"
    [] OTHER -> "csv"

IsStyleWarning(v, parameter) ==
  /\ v.code = "openapi-3/unsupported-feature"
  /\ v.severity = "warning"
  /\ v.range = range(getLiteral(parameter, "style"))
  /\ StartsWith(v.message, "Parameter style '" \o DeclaredStyle(parameter) \o "' is not yet supported.")

\* the HttpParameters bound to a declared parameter of the operation
HttpParametersOf(d, op, parameter) ==
  Flatten([i \in DOMAIN AllHttpMethods(service) |->
             IF AllHttpMethods(service)[i].loc = OperationLoc(d, op)
             THEN SelectSeq(AllHttpMethods(service)[i].parameters,
                            LAMBDA h : h.loc = range(parameter))
             ELSE <<>>])

CarriesStyle(d, op, parameter) ==
  /\ Len(HttpParametersOf(d, op, parameter)) > 0
  /\ \A k \in DOMAIN HttpParametersOf(d, op, parameter) :
       /\ Len(HttpParametersOf(d, op, parameter)[k].array) = 1
       /\ HttpParametersOf(d, op, parameter)[k].array[1].value = ExpectedStyle(parameter)
  /\ DeclaredStyle(parameter) \in {"matrix", "label"}
       => \E j \in DOMAIN violations : IsStyleWarning(violations[j], parameter)

C15_ArrayStyle ==
  Returned =>
    \A i \in DOMAIN Operations(doc) :
      \A j \in DOMAIN ArrayParameters(doc, Operations(doc)[i]) :
        CarriesStyle(doc, Operations(doc)[i], ArrayParameters(doc, Operations(doc)[i])[j])

-----------------------------------------------------------------------------
(* C16: the security options of a Method.  They come from the `security`   *)
(* list of the operation whenever it declares one, the empty list          *)
(* included, and nothing of the document-level list is added; from the     *)
(* document-level list when the operation declares none; there are none    *)
(* when neither is declared.  Every requirement of the list gives one      *)
(* option, with the schemes in the order of the keys of the requirement,   *)
(* the openIdConnect schemes left out.                                     *)

\* the requirement nodes of a `security` list (none when it is no list)
Requirements(n) ==
  IF isArray(Child(n, "security")) THEN Child(n, "security").children ELSE <<>>

\* the list that applies to an operation
AppliedRequirements(d, op) ==
  IF isArray(Child(op.operation.node, "security")) THEN Requirements(op.operation.node)
  ELSE Requirements(d.node)

\* the declared type of the security scheme a requirement key names
SchemeType(d, key) ==
  LET t == Child(Child(Child(Child(d.node, "components"), "securitySchemes"), key), "type") IN
  IF isLiteral(t) /\ t.lt = "string" THEN t.str ELSE ""

SchemeKind(type) ==
  CASE type = "http" -> "BasicScheme"
    [] type = "apiKey" -> "ApiKeyScheme"
    [] type = "oauth2" -> "OAuth2Scheme"
    [] OTHER -> ""

\* the keys of a requirement that name a scheme an option holds
OptionKeys(d, requirement) ==
  SelectSeq([i \in DOMAIN requirement.children |-> requirement.children[i].key],
            LAMBDA key : SchemeType(d, key) \in {"http", "apiKey", "oauth2"})

\* the options of the Methods bound to the operation
SecurityOf(d, op) ==
  {AllMethods(service)[i].security :
     i \in {k \in DOMAIN AllMethods(service) : AllMethods(service)[k].loc = OperationLoc(d, op)}}

IsOptionOf(d, option, requirement) ==
  /\ Len(option) = Len(OptionKeys(d, requirement))
  /\ \A k \in DOMAIN option :
       /\ option[k].name.value = OptionKeys(d, requirement)[k]
       /\ option[k].kind = SchemeKind(SchemeType(d, OptionKeys(d, requirement)[k]))

C16_SecurityOptions ==
  Returned =>
    \A i \in DOMAIN Operations(doc) :
      /\ SecurityOf(doc, Operations(doc)[i]) # {}
      /\ \A options \in SecurityOf(doc, Operations(doc)[i]) :
           /\ Len(options) = Len(AppliedRequirements(doc, Operations(doc)[i]))
           /\ \A j \in DOMAIN options :
                IsOptionOf(doc, options[j], AppliedRequirements(doc, Operations(doc)[i])[j])

\* a returned service of a document with a document-level list, in which
\* one operation has a list of its own with an openIdConnect key, one has an
\* empty list and one has none
C16_Witness ==
  /\ Returned
  /\ Len(Requirements(doc.node)) > 0
  /\ \E i \in DOMAIN Operations(doc) :
       /\ Len(Requirements(Operations(doc)[i].operation.node)) > 1
       /\ \E j \in DOMAIN Requirements(Operations(doc)[i].operation.node) :
            LET requirement == Requirements(Operations(doc)[i].operation.node)[j] IN
            /\ \E k \in DOMAIN requirement.children :
                 SchemeType(doc, requirement.children[k].key) = "openIdConnect"
            /\ Len(OptionKeys(doc, requirement)) > 1
       /\ \E options \in SecurityOf(doc, Operations(doc)[i]) : Len(options) > 1
  /\ \E i \in DOMAIN Operations(doc) :
       /\ isArray(Child(Operations(doc)[i].operation.node, "security"))
       /\ Len(Requirements(Operations(doc)[i].operation.node)) = 0
       /\ SecurityOf(doc, Operations(doc)[i]) = {<<>>}
  /\ \E i \in DOMAIN Operations(doc) :
       /\ ~isArray(Child(Operations(doc)[i].operation.node, "security"))
       /\ \E options \in SecurityOf(doc, Operations(doc)[i]) :
            Len(options) = 1 /\ Len(options[1]) = 1

-----------------------------------------------------------------------------
(* C17: interface names.  No two interfaces of a returned service have the *)
(* same name, whatever the tags and path segments of the document are,     *)
(* names that differ only by their plural form ('pet', 'pets') included.   *)
C17_UniqueInterfaceNames ==
  Returned =>
    \A i \in DOMAIN service.interfaces : \A j \in DOMAIN service.interfaces :
      i # j => service.interfaces[i].name.value # service.interfaces[j].name.value

-----------------------------------------------------------------------------
(* C18: resolveRef.  resolveRef(root, p) returns the node reached from the *)
(* root by following the segments of p between the '/', each the name of a *)
(* property of an object node, '#' alone gives the root; it fails when p   *)
(* does not start with '#', when a segment names no property of the        *)
(* current object and when the current node is no object.                  *)

\* the node reached from n through the properties the segments name
\* (Undefined when a segment names none, or n is no object)
RECURSIVE Follow(_, _)
Follow(n, segments) ==
  IF Len(segments) = 0 THEN n
  ELSE IF isObject(n) /\ Child(n, Head(segments)) # Undefined
  THEN Follow(Child(n, Head(segments)), Tail(segments))
  ELSE Undefined

\* the node the pointer addresses in the document (Undefined when none)
Addressed(d, p) ==
  IF ~StartsWith(p, "#") THEN Undefined
  ELSE IF Split(p, "/")[1] = "#" THEN Follow(d.node, Tail(Split(p, "/")))
  ELSE Follow(d.node, Split(p, "/"))

C18_ResolveRef ==
  pc \in {"resolved", "unresolved"} =>
    IF Addressed(doc, ptr) = Undefined
    THEN pc = "unresolved" /\ StartsWith(error, "Cannot resolve ref")
    ELSE pc = "resolved" /\ found.target.node = Addressed(doc, ptr)

-----------------------------------------------------------------------------
(* C19: schema classification.  The inline path (toSchemaOrRef) and the    *)
(* reference-target path (resolveSchema) classify every object node alike: *)
(* no `type` gives ObjectSchema, 'string' StringSchema, 'integer' and      *)
(* 'number' NumberSchema, 'boolean' BooleanSchema, 'array' ArraySchema,    *)
(* 'object' ObjectSchema; any other `type` and a node that is no object    *)
(* get no classification on either path.                                   *)

\* the variant a path gave ("" when it gave none: undefined, or an error)
Classification(w) == IF IsDef(w) THEN w.nodeType ELSE ""

\* the variant the table of the claim gives a node
Classified(n) ==
  CASE ~isObject(n) -> ""
    [] isObject(n) /\ Child(n, "type") = Undefined -> "ObjectSchema"
    [] isObject(n) /\ Child(n, "type") = Str("string") -> "StringSchema"
    [] isObject(n) /\ Child(n, "type") \in {Str("integer"), Str("number")} -> "NumberSchema"
    [] isObject(n) /\ Child(n, "type") = Str("boolean") -> "BooleanSchema"
    [] isObject(n) /\ Child(n, "type") = Str("array") -> "ArraySchema"
    [] isObject(n) /\ Child(n, "type") = Str("object") -> "ObjectSchema"
    [] OTHER -> ""

C19_SameClassification ==
  pc = "classified" =>
    /\ Classification(found.inline) = Classified(found.target.node)
    /\ Classification(found.referred) = Classified(found.target.node)

-----------------------------------------------------------------------------
(* C20: allOf.  The property list of a Type built from a schema with allOf *)
(* is the concatenation, in branch order, of the property lists that the   *)
(* same merge gives each resolved branch (a branch with an allOf of its    *)
(* own is merged the same way); a property name a later branch declares    *)
(* again is appended again; a branch property is required when its name is *)
(* in the required list of the branch or of the parent.                    *)

\* the strings of the `required` list of a schema
RequiredNames(n) ==
  IF isArray(Child(n, "required"))
  THEN {Child(n, "required").children[i].str : i \in DOMAIN Child(n, "required").children}
  ELSE {}

\* the names of the `properties` of a schema, in document order
PropertyNames(n) ==
  IF isObject(Child(n, "properties"))
  THEN [i \in DOMAIN Child(n, "properties").children |-> Child(n, "properties").children[i].key]
  ELSE <<>>

\* the branches of the allOf of a schema, each behind its reference
Branches(d, n) ==
  [i \in DOMAIN Child(n, "allOf").children |->
     LET b == Child(n, "allOf").children[i] IN
     IF isRef(b) THEN Addressed(d, Child(b, "$ref").str) ELSE b]

\* the merge of the claim: pairs <<name, required>>; `fuel` bounds the
\* nesting of allOf the merge follows
RECURSIVE MergedProperties(_, _, _, _)
MergedProperties(d, n, required, fuel) ==
  IF fuel = 0 THEN <<>>
  ELSE IF isArray(Child(n, "allOf"))
  THEN Flatten([i \in DOMAIN Branches(d, n) |->
                  MergedProperties(d, Branches(d, n)[i],
                                   RequiredNames(Branches(d, n)[i]) \cup required, fuel - 1)])
  ELSE [i \in DOMAIN PropertyNames(n) |-> <<PropertyNames(n)[i], PropertyNames(n)[i] \in required>>]

\* the pairs <<name, required>> of the properties of a Type
PropertiesOf(t) ==
  [j \in DOMAIN t.properties |->
     <<t.properties[j].name.value,
       \E k \in DOMAIN t.properties[j].rules : t.properties[j].rules[k].id = "required">>]

\* the component schema a Type was built from (Undefined for an anonymous Type)
SchemaOfType(d, t) ==
  IF t.loc = <<"prop", d.fmt, "components", "schemas", t.name.value>>
  THEN Follow(d.node, <<"components", "schemas", t.name.value>>)
  ELSE Undefined

C20_AllOfMerge ==
  Returned =>
    \A i \in DOMAIN service.types :
      LET n == SchemaOfType(doc, service.types[i]) IN
      isArray(Child(n, "allOf")) =>
        PropertiesOf(service.types[i]) = MergedProperties(doc, n, RequiredNames(n), StackLimit)

-----------------------------------------------------------------------------
(* C21: inline object schemas.  Synthesizing an inline object schema       *)
(* registers exactly one entity under the name camel(parentName_localName):*)
(* a Union when the schema declares oneOf, whose members are the           *)
(* descriptors of the alternatives that are object schemas or references,  *)
(* in declaration order; otherwise a Type.  The descriptor returned is     *)
(* non-primitive, non-array and refers to that name.                       *)

\* the node at a path of property names and array indices (Undefined when none)
RECURSIVE NodeAt(_, _)
NodeAt(n, path) ==
  IF Len(path) = 0 THEN n
  ELSE IF isObject(n) /\ Child(n, Head(path)) # Undefined
  THEN NodeAt(Child(n, Head(path)), Tail(path))
  ELSE IF isArray(n) /\ IsNumeral(Head(path)) /\ (ToNumber(Head(path)) + 1) \in DOMAIN n.children
  THEN NodeAt(n.children[ToNumber(Head(path)) + 1], Tail(path))
  ELSE Undefined

\* the schema an entity with the range `loc` was synthesized from
SchemaAt(d, loc) == NodeAt(d.node, SubSeq(loc, 3, Len(loc)))

\* the entity e was registered from a schema inside the schema of entity u
Within(e, u) == Len(e.loc) >= Len(u.loc) /\ SubSeq(e.loc, 1, Len(u.loc)) = u.loc

\* the Types and Unions registered for inline schemas
Synthesized == anonymousTypes \o unions

\* the entities registered under the name of entity u while u was synthesized
RegisteredAs(u) ==
  {Synthesized[j] : j \in {k \in DOMAIN Synthesized :
                             /\ Synthesized[k].name.value = u.name.value
                             /\ Within(Synthesized[k], u)}}

\* the indices of the alternatives of a oneOf that are object schemas or references
KeptAlternatives(n) ==
  SelectSeq([i \in DOMAIN Child(n, "oneOf").children |-> i],
            LAMBDA i : \/ isRef(Child(n, "oneOf").children[i])
                       \/ Classified(Child(n, "oneOf").children[i]) = "ObjectSchema")

\* the range of the schema the i-th alternative of the union u stands for
AlternativeLoc(d, u, i) ==
  LET b == Child(SchemaAt(d, u.loc), "oneOf").children[i] IN
  IF isRef(b) THEN <<"value", d.fmt>> \o Tail(Split(Child(b, "$ref").str, "/"))
  ELSE u.loc \o <<"oneOf", ToString(i - 1)>>

\* the typed values of the service that the synthesis of the schema of entity
\* u returned (a value got through a reference has a located type name)
DescriptorsOf(s, u) ==
  SelectSeq(AllParameters(s) \o AllReturnTypes(s) \o AllProperties(s),
            LAMBDA x : x.loc = u.loc /\ x.typeName.loc = NoLoc)

C21_InlineObject ==
  (Returned /\ calls = 1) =>
    \A i \in DOMAIN Synthesized :
      LET u == Synthesized[i]
          n == SchemaAt(doc, u.loc)
      IN /\ RegisteredAs(u) = {u}
         /\ u.kind = (IF isArray(Child(n, "oneOf")) THEN "Union" ELSE "Type")
         /\ u.kind = "Union" =>
              /\ Len(u.members) = Len(KeptAlternatives(n))
              /\ \A k \in DOMAIN u.members :
                   /\ u.members[k].loc = AlternativeLoc(doc, u, KeptAlternatives(n)[k])
                   /\ ~u.members[k].isPrimitive /\ ~u.members[k].isArray
         /\ \A k \in DOMAIN DescriptorsOf(service, u) :
              /\ DescriptorsOf(service, u)[k].typeName.value = u.name.value
              /\ ~DescriptorsOf(service, u)[k].isPrimitive
              /\ ~DescriptorsOf(service, u)[k].isArray

-----------------------------------------------------------------------------
(* C22: references.  Synthesizing a type from a reference whose target is  *)
(* a component object schema, or from a reference that points outside      *)
(* '#/components/schemas/', leaves the Type, Enum and Union tables         *)
(* unchanged; the descriptor is non-primitive and non-array, and is named  *)
(* by the text after the component-schemas prefix or, outside it, by the   *)
(* whole pointer.                                                          *)

\* the pointer addresses a component object schema, or a schema outside the
\* component schemas
OpaqueReference(d, p) ==
  IF StartsWith(p, ComponentSchemasPrefix)
  THEN Classified(Addressed(d, p)) = "ObjectSchema"
  ELSE Classified(Addressed(d, p)) # ""

\* the name the claim gives the descriptor of a reference
ReferenceName(p) ==
  IF StartsWith(p, ComponentSchemasPrefix) THEN Substring(p, Len(ComponentSchemasPrefix)) ELSE p

C22_ReferenceFrame ==
  [][(pc = "classified" /\ pc' = "referenced" /\ OpaqueReference(doc, ptr)) =>
       /\ UNCHANGED <<enums, anonymousTypes, unions>>
       /\ error' = ""
       /\ found'.descriptor.typeName.value = ReferenceName(ptr)
       /\ ~found'.descriptor.isPrimitive
       /\ ~found'.descriptor.isArray]_vars

\* a reference to a component object schema with a oneOf, and so with a
\* structure to synthesize, has been synthesized
C22_Witness ==
  /\ pc = "referenced"
  /\ OpaqueReference(doc, ptr)
  /\ StartsWith(ptr, ComponentSchemasPrefix)
  /\ isArray(Child(Addressed(doc, ptr), "oneOf"))
  /\ found.descriptor.typeName.value = "Choice"

-----------------------------------------------------------------------------
(* C23: inline enums.  An inline string schema with an enum, met as        *)
(* localName under parentName, registers an Enum named                     *)
(* camel(parentName + '_' + singular(localName)) that holds one value per  *)
(* enum entry in declaration order, the values pairwise distinct, and the  *)
(* descriptor refers to that Enum name as a non-primitive type.            *)

\* the strings of the enum entries of a schema, in declaration order
EnumEntries(n) ==
  [i \in DOMAIN Child(n, "enum").children |-> Child(n, "enum").children[i].str]

\* the node synthesized inline is a string schema with an enum
InlineEnum ==
  /\ pc = "synthesized"
  /\ Classified(found.target.node) = "StringSchema"
  /\ ~isRef(found.target.node)
  /\ isArray(Child(found.target.node, "enum"))

\* the strings an Enum holds, in order
ValuesOf(e) == [i \in DOMAIN e.values |-> e.values[i].content.value]

C23_InlineEnum ==
  InlineEnum =>
    /\ Len(enums) = 1
    /\ enums[1].name.value = camel(found.parentName \o "_" \o singular(found.localName))
    /\ ValuesOf(enums[1]) = EnumEntries(found.target.node)
    /\ \A i, j \in DOMAIN enums[1].values : i # j => ValuesOf(enums[1])[i] # ValuesOf(enums[1])[j]
    /\ found.descriptor.typeName.value = enums[1].name.value
    /\ ~found.descriptor.isPrimitive

-----------------------------------------------------------------------------
(* C24: the order of rules.  In the rule list of a field that is marked    *)
(* required the 'required' rule is the first element; for an array-typed   *)
(* field the rules of the item schema come after all rules of the array    *)
(* schema itself; marking the field required removes no other rule.        *)

\* the rule was derived from a keyword of the schema w itself
IsOwnRule(rule, w) == rule.loc # NoLoc /\ SubSeq(rule.loc, 2, Len(rule.loc) - 1) = w.at

\* the rule was derived from another schema: the items of the array w
IsItemRule(rule, w) == rule.loc # NoLoc /\ ~IsOwnRule(rule, w)

C24_RuleOrder ==
  (pc = "ruled" /\ error = "") =>
    /\ found.required => (Len(found.rules) > 0 /\ found.rules[1].id = "required")
    /\ \A i, j \in DOMAIN found.rules :
         (IsItemRule(found.rules[i], found.inline) /\ IsOwnRule(found.rules[j], found.inline)) => j < i
    /\ found.required =>
         \A k \in DOMAIN parseRules(Root(doc), found.inline, FALSE).rules :
           \E i \in DOMAIN found.rules :
             found.rules[i] = parseRules(Root(doc), found.inline, FALSE).rules[k]

-----------------------------------------------------------------------------
(* C25: numeric bounds.  A number schema with a `maximum` gets exactly one *)
(* upper-bound rule: 'number-lt' when its exclusiveMinimum flag is true,   *)
(* 'number-lte' otherwise, whatever exclusiveMaximum says.  With a         *)
(* `minimum` the rule is 'number-gt' when exclusiveMinimum is true and     *)
(* 'number-gte' otherwise.                                                 *)

\* the rules with one of the ids, in order
RulesWithId(rules, ids) == SelectSeq(rules, LAMBDA rule : rule.id \in ids)

\* parseRules has been applied to a number schema
NumberRuled == pc = "ruled" /\ error = "" /\ Classified(found.target.node) = "NumberSchema"

\* a literal number under the key
HasNumber(n, key) == isLiteral(Child(n, key)) /\ Child(n, key).lt = "number"

C25_NumericBounds ==
  NumberRuled =>
    LET n == found.target.node
        exclusive == Child(n, "exclusiveMinimum") = Bool(TRUE)
        upper == RulesWithId(found.rules, {"number-lt", "number-lte"})
        lower == RulesWithId(found.rules, {"number-gt", "number-gte"})
    IN /\ HasNumber(n, "maximum") =>
            /\ Len(upper) = 1
            /\ upper[1].id = (IF exclusive THEN "number-lt" ELSE "number-lte")
            /\ upper[1].num.value = Child(n, "maximum").num
       /\ HasNumber(n, "minimum") =>
            /\ Len(lower) = 1
            /\ lower[1].id = (IF exclusive THEN "number-gt" ELSE "number-gte")
            /\ lower[1].num.value = Child(n, "minimum").num

\* a schema with a maximum, exclusiveMaximum true and no exclusiveMinimum got
\* the rule 'number-lte'
C25_Witness ==
  /\ NumberRuled
  /\ HasNumber(found.target.node, "maximum")
  /\ Child(found.target.node, "exclusiveMaximum") = Bool(TRUE)
  /\ Child(found.target.node, "exclusiveMinimum") = Undefined
  /\ \E i \in DOMAIN found.rules : found.rules[i].id = "number-lte"

-----------------------------------------------------------------------------
(* C26: one name per operation.  For every operation the name of its       *)
(* Method and the name of its HttpMethod binding are the same string,      *)
(* whether or not the operation declares an operationId.                   *)

C26_SameMethodName ==
  Returned =>
    \A i \in DOMAIN AllMethods(service) :
      \A j \in DOMAIN AllHttpMethods(service) :
        AllMethods(service)[i].loc = AllHttpMethods(service)[j].loc =>
          AllMethods(service)[i].name.value = AllHttpMethods(service)[j].name.value

-----------------------------------------------------------------------------
(* C27: one selection of operations.  For every interface the Methods and  *)
(* the HttpMethods of its HTTP paths describe the same (path, key) pairs   *)
(* in the same order: parseMethods and parseHttpProtocol take the same     *)
(* keys of a path item as operations, also when the path item has 'x-*'    *)
(* keys or the keys 'summary', 'description' or 'servers'.                 *)

\* the keys of a path item that name no operation and no parameters
IsAnnotation(key) == StartsWith(key, "x-") \/ key \in {"summary", "description", "servers"}

\* the document without those keys in its path items
WithoutAnnotations(d) ==
  LET clean(item) ==
        IF isObject(item)
        THEN Obj(SelectSeq(item.children, LAMBDA c : ~IsAnnotation(c.key)))
        ELSE item
      cleanPaths(paths) ==
        IF isObject(paths)
        THEN Obj([j \in DOMAIN paths.children |->
                    KV(paths.children[j].key, clean(paths.children[j].value))])
        ELSE paths
  IN [d EXCEPT !.node =
        Obj([i \in DOMAIN d.node.children |->
               IF d.node.children[i].key = "paths"
               THEN KV("paths", cleanPaths(d.node.children[i].value))
               ELSE d.node.children[i]])]

\* the HttpMethods of an interface, path by path
HttpMethodsOf(interface) ==
  Flatten([j \in DOMAIN interface.protocols.http |-> interface.protocols.http[j].methods])

C27_SameOperations ==
  (calls = 1 /\ pc \in {"returned", "thrown"} /\ parser(WithoutAnnotations(doc)).error = "") =>
    /\ Returned
    /\ \A i \in DOMAIN service.interfaces :
         Locs(service.interfaces[i].methods) = Locs(HttpMethodsOf(service.interfaces[i]))

-----------------------------------------------------------------------------
(* C28: parsing again.  A second parse() on the same parser returns a      *)
(* service equal to the one the first call returned and leaves the         *)
(* violations as they were after the first call: the tables of enums,      *)
(* anonymous types, unions and diagnostics carry nothing over.             *)

C28_ParseAgain ==
  (Returned /\ calls > 1) =>
    /\ service = parser(doc).service
    /\ violations = parser(doc).violations

-----------------------------------------------------------------------------
(* C29: union members.  No Union of the output lists its own name among    *)
(* its members: every inline object alternative of a oneOf is synthesized  *)
(* under a name that differs from the name of the Union and from the names *)
(* of the other alternatives.                                              *)

\* the members of a Union that were synthesized for an inline alternative
\* (a member got through a reference has a located type name)
InlineMembers(u) == SelectSeq(u.members, LAMBDA m : m.typeName.loc = NoLoc)

C29_MemberNames ==
  Returned =>
    \A i \in DOMAIN service.unions :
      /\ \A k \in DOMAIN service.unions[i].members :
           service.unions[i].members[k].typeName.value # service.unions[i].name.value
      /\ \A k, l \in DOMAIN InlineMembers(service.unions[i]) :
           k # l => InlineMembers(service.unions[i])[k].typeName.value
                      # InlineMembers(service.unions[i])[l].typeName.value

-----------------------------------------------------------------------------
(* C30: allOf with properties.  A Type built from an object schema that    *)
(* declares both allOf and `properties` of its own has every property of   *)
(* its own `properties` as well as the properties the allOf branches give. *)

\* the names of the properties of a Type
PropertyNamesOf(t) == {t.properties[j].name.value : j \in DOMAIN t.properties}

\* the names the branches of the allOf of a schema declare
BranchPropertyNames(d, n) ==
  UNION {{PropertyNames(Branches(d, n)[i])[k] : k \in DOMAIN PropertyNames(Branches(d, n)[i])} :
           i \in DOMAIN Branches(d, n)}

C30_OwnProperties ==
  Returned =>
    \A i \in DOMAIN service.types :
      LET n == SchemaOfType(doc, service.types[i]) IN
      (isArray(Child(n, "allOf")) /\ isObject(Child(n, "properties"))) =>
        /\ \A k \in DOMAIN PropertyNames(n) : PropertyNames(n)[k] \in PropertyNamesOf(service.types[i])
        /\ BranchPropertyNames(doc, n) \subseteq PropertyNamesOf(service.types[i])

====
